---- MODULE Spec2Model ----
(***************************************************************************)
(* A model of the yamux connection engine: the Connection facade           *)
(* (poll_new_outbound / poll_next_inbound / poll_close / Drop), the Active *)
(* engine (poll loop, frame dispatch, stream creation, garbage             *)
(* collection), the graceful Closing driver, the Cleanup driver and the    *)
(* stream handles that share per-stream state with the engine.             *)
(***************************************************************************)
EXTENDS Integers, Sequences, FiniteSets, TLC

(* ---------------------------------------------------------------------- *)
(* Bounds of the model                                                    *)
(* ---------------------------------------------------------------------- *)

\* Number of inbound frames the socket delivers in one run.
MaxFrames == 2
\* Number of open-outbound calls in one run.
MaxOpens == 1
\* The socket accepts a frame before more than MaxPending frames are queued.
MaxPending == 1
\* Capacity of the stream table (Config::max_num_streams).
MaxStreams == 1
\* Width of the stream-id integer (u32 in the code, scaled down).
IdBits == 4
\* Width of the integer of a credit, a window and a length (u32 in the code,
\* scaled down: twice the largest value must be an integer of the model).
CreditBits == 21

(* ---------------------------------------------------------------------- *)
(* Program constants and configuration                                    *)
(* ---------------------------------------------------------------------- *)

DEFAULT_CREDIT == 262144
\* Capacity of the StreamCommand channel (MAX_COMMAND_BACKLOG, scaled down).
MaxBacklog == 1
CONNECTION_ID == 0
\* Largest value of the (scaled) stream-id integer.
MAX_ID == 2^IdBits - 1
\* Largest value of the integer type of a credit, a window and a length (u32,
\* scaled down so that the sum of two values is an integer of the model).
MAX_CREDIT == 2^CreditBits - 1

Modes == {"Client", "Server"}
States == {"Open", "SendClosed", "RecvClosed", "Closed"}
Tags == {"Data", "WindowUpdate", "Ping", "GoAway"}

\* The configurations a connection is constructed with: a small stream table
\* with the default window and window updates sent on read, or with a larger
\* receive window and window updates sent on receipt.
Config(receive_window, window_update_mode) ==
  [ receive_window |-> receive_window,
    max_buffer_size |-> DEFAULT_CREDIT,
    max_num_streams |-> MaxStreams,
    window_update_mode |-> window_update_mode,
    split_send_size |-> DEFAULT_CREDIT ]
Configs ==
  { Config(DEFAULT_CREDIT, "OnRead"), Config(2 * DEFAULT_CREDIT, "OnReceive") }

(* ---------------------------------------------------------------------- *)
(* Frames                                                                 *)
(* ---------------------------------------------------------------------- *)

\* A frame header: tag, flags, stream id and the length / credit / nonce /
\* error code field.  A Data frame's body has exactly `len` bytes.
Frame(tag, flags, id, len) == [tag |-> tag, flags |-> flags, id |-> id, len |-> len]

window_update(id, credit) == Frame("WindowUpdate", {}, id, credit)
close_stream(id, ack) == Frame("Data", IF ack THEN {"FIN", "ACK"} ELSE {"FIN"}, id, 0)
term == Frame("GoAway", {}, CONNECTION_ID, 0)
protocol_error == Frame("GoAway", {}, CONNECTION_ID, 1)
internal_error == Frame("GoAway", {}, CONNECTION_ID, 2)
\* Header::data(id, 0) with RST / FIN set.
rst_frame(id) == Frame("Data", {"RST"}, id, 0)
fin_frame(id) == Frame("Data", {"FIN"}, id, 0)
pong(nonce) == Frame("Ping", {"ACK"}, CONNECTION_ID, nonce)

\* StreamId predicates.
is_server(id) == id % 2 = 0
is_client(id) == id % 2 = 1
is_session(id) == id = CONNECTION_ID

\* The frames a remote can put on the wire in this model.
WireIds == {0, 1, 2}
WireLens == {0, DEFAULT_CREDIT, DEFAULT_CREDIT + 1}
WireCredits == {0, DEFAULT_CREDIT}
StreamFlagSets == {{}, {"SYN"}, {"FIN"}, {"SYN", "FIN"}}
ResetFlagSets == {{"RST"}, {"SYN", "RST"}}
InFrames ==
  { Frame("Data", fl, i, l) : fl \in StreamFlagSets, i \in WireIds, l \in WireLens }
  \cup { Frame("WindowUpdate", fl, i, l) :
            fl \in StreamFlagSets, i \in WireIds, l \in WireCredits }
  \cup { Frame(t, fl, i, 0) :
            t \in {"Data", "WindowUpdate"}, fl \in ResetFlagSets, i \in WireIds }
  \cup { Frame("Ping", fl, i, 7) : fl \in {{}, {"ACK"}}, i \in WireIds }
  \cup { Frame("GoAway", {}, CONNECTION_ID, 0) }

(* ---------------------------------------------------------------------- *)
(* State                                                                  *)
(* ---------------------------------------------------------------------- *)

VARIABLES
  swept_rst,       \* history: ids of the streams for which a sweep queued an RST
  overflow_checks, \* the build: does an integer overflow panic (debug) or wrap (release)
  mode,            \* Active.mode
  config,          \* Active.config
  inner,           \* Connection.inner: the ConnectionState tag
  pc,              \* which driver the running facade call has taken out of `inner`
  op,              \* the facade call that is running ("none" when idle)
  ret,             \* what the facade call that returned in this step returned
  next_id,         \* Active.next_id
  streams,         \* Active.streams: the ids in the stream table
  shared,          \* per-stream state shared by the table entry and the handle
  handles,         \* ids whose Stream handle is held outside the engine
  pending_frames,  \* Active.pending_frames / Closing.pending_frames
  cmds,            \* the StreamCommand channel
  inflight,        \* a command a sender has reserved a slot for but not yet pushed
  rx_closed,       \* the channel's receiver was closed or dropped
  closing_state,   \* Closing.state
  cleanup_error,   \* Cleanup.error
  sent,            \* the frames this step handed to the socket by start_send
  recv,            \* the frame this step read from the socket
  goaway_sent,     \* the engine has written a GoAway(ProtocolError) to the socket
  sock,            \* the socket: "open", "closed" (poll_close done) or "dropped"
  nframes          \* inbound frames the engine has read (dropped with the engine)

vars == << swept_rst, overflow_checks, mode, config, inner, pc, op, ret, next_id, streams, shared, handles,
           pending_frames, cmds, inflight, rx_closed, closing_state, cleanup_error,
           sent, recv, goaway_sent, sock, nframes >>

\* What a call returned: Ok(v), Err(e), Pending, None (end of stream) or Panic.
Ret(kind, val) == [kind |-> kind, val |-> val]
\* A facade call's return, tagged with the call.
Returned(o, r) == [op |-> o, kind |-> r.kind, val |-> r.val]
NoRet == Returned("none", Ret("None", "None"))

Restrict(f, S) == [x \in S |-> f[x]]

RECURSIVE SumSeq(_)
SumSeq(s) == IF s = << >> THEN 0 ELSE Head(s) + SumSeq(Tail(s))


Min(x, y) == IF x <= y THEN x ELSE y

Put(f, k, v) == [x \in DOMAIN f \cup {k} |-> IF x = k THEN v ELSE f[x]]

Range(s) == { s[i] : i \in DOMAIN s }

\* The orders in which an iteration over the stream table may visit `S`.
Orders(S) ==
  { s \in [1..Cardinality(S) -> S] : \A i, j \in 1..Cardinality(S) : i # j => s[i] # s[j] }

\* u32::saturating_sub
saturating_sub(x, y) == IF x >= y THEN x - y ELSE 0

(* ---------------------------------------------------------------------- *)
(* Per-stream shared state (stream.rs)                                    *)
(* ---------------------------------------------------------------------- *)

\* Shared::update_state: the state after the update.  Transitions only move
\* toward Closed; the second half-close closes the stream.
update_state(current, next) ==
  CASE current = "Closed" -> "Closed"
    [] current = "Open" -> next
    [] current = "RecvClosed" ->
         IF next \in {"Closed", "SendClosed"} THEN "Closed" ELSE "RecvClosed"
    [] current = "SendClosed" ->
         IF next \in {"Closed", "RecvClosed"} THEN "Closed" ELSE "SendClosed"

can_read(state) == state \notin {"RecvClosed", "Closed"}
can_write(state) == state \notin {"SendClosed", "Closed"}

\* Stream::new: a fresh record in state Open; `origin` is who opened it.
Stream_new(window, credit, origin) ==
  [ state |-> "Open", window |-> window, credit |-> credit, buffer |-> << >>,
    reader |-> FALSE, writer |-> FALSE, flag |-> "None",
    origin |-> origin ]

\* A faulty wake-up that leaves the reader's waker registered and unwoken.
wake_reader_not(sh) == sh

\* reader.take().wake() and writer.take().wake()
wake_reader(sh) == [sh EXCEPT !.reader = FALSE]
wake_writer(sh) == [sh EXCEPT !.writer = FALSE]
wake_both(sh) == wake_writer(wake_reader(sh))

\* update_state(.., Closed) followed by waking both wakers.
close_and_wake(sh) == wake_both([sh EXCEPT !.state = update_state(@, "Closed")])

\* Chunks::push and Chunks::len
push(buffer, len) == IF len = 0 THEN buffer ELSE Append(buffer, len)
buffer_len(sh) == SumSeq(sh.buffer)

\* Shared::next_window_update: << credit >> when an update is due, << >> otherwise.
next_window_update(sh) ==
  IF ~can_read(sh.state) THEN << >>
  ELSE LET bytes_received == saturating_sub(config.receive_window, sh.window)
           new_credit == IF config.window_update_mode = "OnReceive"
                         THEN bytes_received
                         ELSE saturating_sub(bytes_received, buffer_len(sh))
       IN IF new_credit >= config.receive_window \div 2 THEN << new_credit >> ELSE << >>

(* ---------------------------------------------------------------------- *)
(* The Active engine (connection.rs)                                      *)
(* ---------------------------------------------------------------------- *)

\* The engine's fields that frame dispatch and garbage collection touch.
Eng ==
  [ streams |-> streams, shared |-> shared, handles |-> handles,
    pending_frames |-> pending_frames ]

Act(kind, fr, id) == [kind |-> kind, frame |-> fr, stream |-> id]
ActNone == Act("None", << >>, -1)
Terminate(f) == Act("Terminate", << f >>, -1)
\* The handler panicked on an arithmetic overflow: no action is returned.
Panicked == Act("Panic", << >>, -1)

\* A faulty is_valid_remote_id that accepts every id.
is_valid_remote_id_any(id, tag) == TRUE

\* Active::is_valid_remote_id
is_valid_remote_id(id, tag) ==
  IF tag = "Ping" \/ tag = "GoAway" THEN is_session(id)
  ELSE IF mode = "Client" THEN is_server(id) ELSE is_client(id)

\* streams.insert(id, stream.clone()) with the other clone handed out.
insert_stream(a, id, sh) ==
  [a EXCEPT !.streams = @ \cup {id}, !.shared = Put(@, id, sh),
            !.handles = @ \cup {id}]

\* A faulty sweep that resets every dropped stream.
gc_frame_rst(sh, id) == << rst_frame(id) >>

\* The frame the sweep emits for a dropped stream, by its state before the sweep.
gc_frame(sh, id) ==
  CASE sh.state = "Open" -> << rst_frame(id) >>
    [] sh.state = "RecvClosed" -> << fin_frame(id) >>
    [] sh.state = "SendClosed" ->
         IF config.window_update_mode = "OnRead" /\ sh.window = 0
         THEN << rst_frame(id) >> ELSE << >>
    [] sh.state = "Closed" -> << >>

\* The first loop of Active::garbage_collect, visiting the dropped streams in `order`.
RECURSIVE gc_sweep(_, _)
gc_sweep(a, order) ==
  IF order = << >> THEN a
  ELSE LET id == Head(order)
           sh == a.shared[id]
       IN gc_sweep([a EXCEPT !.pending_frames = @ \o gc_frame(sh, id),
                             !.shared[id] = close_and_wake(sh)],
                   Tail(order))

\* Streams whose only reference is the table's (strong_count <= 1).
dropped_streams(a) == a.streams \ a.handles

\* A faulty garbage_collect that leaves the swept streams in the table.
garbage_collect_keep(a, order) == gc_sweep(a, order)

\* Active::garbage_collect: sweep, then remove the swept ids from the table.
garbage_collect(a, order) ==
  LET b == gc_sweep(a, order)
  IN [b EXCEPT !.streams = @ \ Range(order),
               !.shared = Restrict(@, DOMAIN @ \ Range(order))]

\* A faulty drop_all_streams that closes every record but wakes nobody.
drop_all_streams_asleep(a) ==
  [a EXCEPT !.streams = {},
            !.shared = [i \in DOMAIN a.shared \cap a.handles |->
                          IF i \in a.streams
                          THEN [a.shared[i] EXCEPT !.state = update_state(@, "Closed")]
                          ELSE a.shared[i]]]

\* Active::drop_all_streams: close every record, wake its wakers, empty the table.
drop_all_streams(a) ==
  [a EXCEPT !.streams = {},
            !.shared = [i \in DOMAIN a.shared \cap a.handles |->
                          IF i \in a.streams THEN close_and_wake(a.shared[i])
                          ELSE a.shared[i]]]

\* Active::on_data
on_data(a, frame) ==
  LET stream_id == frame.id
      is_finish == "FIN" \in frame.flags
  IN
  IF "RST" \in frame.flags THEN
    [ a |-> IF stream_id \in a.streams
            THEN [a EXCEPT !.shared[stream_id] = close_and_wake(@)] ELSE a,
      action |-> ActNone ]
  ELSE IF "SYN" \in frame.flags THEN
    IF ~is_valid_remote_id(stream_id, "Data") THEN
      [a |-> a, action |-> Terminate(protocol_error)]
    ELSE IF frame.len > DEFAULT_CREDIT THEN
      [a |-> a, action |-> Terminate(protocol_error)]
    ELSE IF stream_id \in a.streams THEN
      [a |-> a, action |-> Terminate(protocol_error)]
    ELSE IF Cardinality(a.streams) = config.max_num_streams THEN
      [a |-> a, action |-> Terminate(internal_error)]
    ELSE
      LET s0 == Stream_new(DEFAULT_CREDIT, DEFAULT_CREDIT, "remote")
          s1 == IF is_finish
                THEN [s0 EXCEPT !.state = update_state(@, "RecvClosed")] ELSE s0
          s2 == [s1 EXCEPT !.window = saturating_sub(@, frame.len),
                           !.buffer = push(@, frame.len)]
          upd == IF config.window_update_mode = "OnReceive"
                 THEN next_window_update(s2) ELSE << >>
          s3 == IF upd # << >> THEN [s2 EXCEPT !.window = @ + upd[1]]
                ELSE [s2 EXCEPT !.flag = "Ack"]
          wu == IF upd # << >>
                THEN << [window_update(stream_id, upd[1]) EXCEPT !.flags = {"ACK"}] >>
                ELSE << >>
      IN [a |-> insert_stream(a, stream_id, s3), action |-> Act("New", wu, stream_id)]
  ELSE IF stream_id \in a.streams THEN
    LET sh == a.shared[stream_id] IN
    IF frame.len > sh.window THEN
      [a |-> a, action |-> Terminate(protocol_error)]
    ELSE
      LET s1 == IF is_finish
                THEN [sh EXCEPT !.state = update_state(@, "RecvClosed")] ELSE sh
      IN
      IF buffer_len(s1) >= config.max_buffer_size THEN
        [ a |-> [a EXCEPT !.shared[stream_id] = s1],
          action |-> Act("Reset", << rst_frame(stream_id) >>, -1) ]
      ELSE
        LET s2 == wake_reader([s1 EXCEPT !.window = saturating_sub(@, frame.len),
                                         !.buffer = push(@, frame.len)])
            upd == IF config.window_update_mode = "OnReceive"
                   THEN next_window_update(s2) ELSE << >>
        IN IF upd # << >>
           THEN [ a |-> [a EXCEPT !.shared[stream_id] = [s2 EXCEPT !.window = @ + upd[1]]],
                  action |-> Act("Update", << window_update(stream_id, upd[1]) >>, -1) ]
           ELSE [ a |-> [a EXCEPT !.shared[stream_id] = s2], action |-> ActNone ]
  ELSE
    [a |-> a, action |-> ActNone]

\* A faulty on_window_update that assigns the state on FIN instead of going
\* through update_state.
on_window_update_assign(a, frame) ==
  LET stream_id == frame.id
      is_finish == "FIN" \in frame.flags
  IN
  IF "RST" \in frame.flags THEN
    [ a |-> IF stream_id \in a.streams
            THEN [a EXCEPT !.shared[stream_id] = close_and_wake(@)] ELSE a,
      action |-> ActNone ]
  ELSE IF "SYN" \in frame.flags THEN
    IF ~is_valid_remote_id(stream_id, "WindowUpdate") THEN
      [a |-> a, action |-> Terminate(protocol_error)]
    ELSE IF stream_id \in a.streams THEN
      [a |-> a, action |-> Terminate(protocol_error)]
    ELSE IF Cardinality(a.streams) = config.max_num_streams THEN
      [a |-> a, action |-> Terminate(protocol_error)]
    ELSE
      LET s0 == Stream_new(DEFAULT_CREDIT, frame.len + DEFAULT_CREDIT, "remote")
          s1 == [s0 EXCEPT !.flag = "Ack"]
          s2 == IF is_finish THEN [s1 EXCEPT !.state = "RecvClosed"] ELSE s1
      IN [a |-> insert_stream(a, stream_id, s2), action |-> Act("New", << >>, stream_id)]
  ELSE IF stream_id \in a.streams THEN
    LET sh == a.shared[stream_id]
        s1 == [sh EXCEPT !.credit = @ + frame.len]
        s2 == IF is_finish THEN [s1 EXCEPT !.state = "RecvClosed"] ELSE s1
    IN [a |-> [a EXCEPT !.shared[stream_id] = wake_writer(s2)], action |-> ActNone]
  ELSE
    [a |-> a, action |-> ActNone]

\* A faulty on_window_update that grants an existing stream its credit twice.
on_window_update_twice(a, frame) ==
  LET stream_id == frame.id
      is_finish == "FIN" \in frame.flags
  IN
  IF "RST" \in frame.flags THEN
    [ a |-> IF stream_id \in a.streams
            THEN [a EXCEPT !.shared[stream_id] = close_and_wake(@)] ELSE a,
      action |-> ActNone ]
  ELSE IF "SYN" \in frame.flags THEN
    IF ~is_valid_remote_id(stream_id, "WindowUpdate") THEN
      [a |-> a, action |-> Terminate(protocol_error)]
    ELSE IF stream_id \in a.streams THEN
      [a |-> a, action |-> Terminate(protocol_error)]
    ELSE IF Cardinality(a.streams) = config.max_num_streams THEN
      [a |-> a, action |-> Terminate(protocol_error)]
    ELSE
      LET s0 == Stream_new(DEFAULT_CREDIT, frame.len + DEFAULT_CREDIT, "remote")
          s1 == [s0 EXCEPT !.flag = "Ack"]
          s2 == IF is_finish
                THEN [s1 EXCEPT !.state = update_state(@, "RecvClosed")] ELSE s1
      IN [a |-> insert_stream(a, stream_id, s2), action |-> Act("New", << >>, stream_id)]
  ELSE IF stream_id \in a.streams THEN
    LET sh == a.shared[stream_id]
        s1 == [sh EXCEPT !.credit = @ + 2 * frame.len]
        s2 == IF is_finish
              THEN [s1 EXCEPT !.state = update_state(@, "RecvClosed")] ELSE s1
    IN [a |-> [a EXCEPT !.shared[stream_id] = wake_writer(s2)], action |-> ActNone]
  ELSE
    [a |-> a, action |-> ActNone]

\* `x + y` on u32 as the build computes it: the sum when it fits; otherwise a
\* panic where overflow is checked (Overflow) and the sum modulo 2^width where
\* it is not.
Overflow == -1
add_u32(x, y) ==
  IF x + y <= MAX_CREDIT THEN x + y
  ELSE IF overflow_checks THEN Overflow
  ELSE (x + y) % (MAX_CREDIT + 1)

\* Active::on_window_update
on_window_update(a, frame) ==
  LET stream_id == frame.id
      is_finish == "FIN" \in frame.flags
  IN
  IF "RST" \in frame.flags THEN
    [ a |-> IF stream_id \in a.streams
            THEN [a EXCEPT !.shared[stream_id] = close_and_wake(@)] ELSE a,
      action |-> ActNone ]
  ELSE IF "SYN" \in frame.flags THEN
    IF ~is_valid_remote_id(stream_id, "WindowUpdate") THEN
      [a |-> a, action |-> Terminate(protocol_error)]
    ELSE IF stream_id \in a.streams THEN
      [a |-> a, action |-> Terminate(protocol_error)]
    ELSE IF Cardinality(a.streams) = config.max_num_streams THEN
      [a |-> a, action |-> Terminate(protocol_error)]
    ELSE
      LET credit == add_u32(frame.len, DEFAULT_CREDIT)
          s0 == Stream_new(DEFAULT_CREDIT, credit, "remote")
          s1 == [s0 EXCEPT !.flag = "Ack"]
          s2 == IF is_finish
                THEN [s1 EXCEPT !.state = update_state(@, "RecvClosed")] ELSE s1
      IN IF credit = Overflow THEN [a |-> a, action |-> Panicked]
         ELSE [a |-> insert_stream(a, stream_id, s2),
               action |-> Act("New", << >>, stream_id)]
  ELSE IF stream_id \in a.streams THEN
    LET sh == a.shared[stream_id]
        credit == add_u32(sh.credit, frame.len)
        s1 == [sh EXCEPT !.credit = credit]
        s2 == IF is_finish
              THEN [s1 EXCEPT !.state = update_state(@, "RecvClosed")] ELSE s1
    IN IF credit = Overflow THEN [a |-> a, action |-> Panicked]
       ELSE [a |-> [a EXCEPT !.shared[stream_id] = wake_writer(s2)], action |-> ActNone]
  ELSE
    [a |-> a, action |-> ActNone]

\* A faulty on_ping that answers a pong as if it were a ping.
on_ping_echo(a, frame) ==
  IF frame.id = CONNECTION_ID \/ frame.id \in a.streams THEN
    [a |-> a, action |-> Act("Ping", << pong(frame.len) >>, -1)]
  ELSE [a |-> a, action |-> ActNone]

\* A faulty on_ping that answers a ping for any stream id.
on_ping_any(a, frame) ==
  IF "ACK" \in frame.flags THEN [a |-> a, action |-> ActNone]
  ELSE [a |-> a, action |-> Act("Ping", << pong(frame.len) >>, -1)]

\* Active::on_ping
on_ping(a, frame) ==
  IF "ACK" \in frame.flags THEN [a |-> a, action |-> ActNone]
  ELSE IF frame.id = CONNECTION_ID \/ frame.id \in a.streams THEN
    [a |-> a, action |-> Act("Ping", << pong(frame.len) >>, -1)]
  ELSE [a |-> a, action |-> ActNone]

\* Active::on_frame: the engine afterwards and what the call returns:
\* Ok(-1) for Ok(None), Ok(id) for Ok(Some(stream)), Err(Closed) for a GoAway,
\* Panic when the handler panicked.
on_frame(a, frame) ==
  IF frame.tag = "GoAway" THEN [a |-> a, result |-> Ret("Err", "Closed")]
  ELSE
    LET r == CASE frame.tag = "Data" -> on_data(a, frame)
               [] frame.tag = "WindowUpdate" -> on_window_update(a, frame)
               [] frame.tag = "Ping" -> on_ping(a, frame)
        b == [r.a EXCEPT !.pending_frames = @ \o r.action.frame]
    IN IF r.action.kind = "Panic"
       THEN [a |-> a, result |-> Ret("Panic", "overflow")]
       ELSE IF r.action.kind = "New"
       THEN [a |-> b, result |-> Ret("Ok", r.action.stream)]
       ELSE [a |-> b, result |-> Ret("Ok", -1)]

\* First id of a mode, and the value of next_id once the mode's ids are used
\* up (the state after many opens).
first_id(m) == IF m = "Client" THEN 1 ELSE 2
late_id(m) == IF m = "Client" THEN MAX_ID ELSE MAX_ID - 1

\* The value of next_id when one id of the mode is left to hand out.
last_id(m) == late_id(m) - 2

\* The ids handed out so far, counted from the start of the connection or from
\* the later value of next_id the connection is looked at from.
opened ==
  LET from == IF next_id >= late_id(mode) THEN late_id(mode)
              ELSE IF next_id >= last_id(mode) THEN last_id(mode)
              ELSE first_id(mode)
  IN (next_id - from) \div 2

\* A faulty next_stream_id that fails only once next_id itself has left the
\* width of an id.
next_stream_id_late ==
  IF next_id > MAX_ID THEN Ret("Err", "NoMoreStreamIds")
  ELSE IF (mode = "Client" /\ ~is_client(next_id)) \/ (mode = "Server" /\ ~is_server(next_id))
       THEN Ret("Panic", "assert")
       ELSE Ret("Ok", next_id)

\* Active::next_stream_id: Ok(id), Err(NoMoreStreamIds), or a failed parity assertion.
next_stream_id ==
  IF next_id + 2 > MAX_ID THEN Ret("Err", "NoMoreStreamIds")
  ELSE IF (mode = "Client" /\ ~is_client(next_id)) \/ (mode = "Server" /\ ~is_server(next_id))
       THEN Ret("Panic", "assert")
       ELSE Ret("Ok", next_id)

\* A faulty new_outbound that adds the extra credit it announces to the
\* stream's own window, which already has it.
new_outbound_wide(a) ==
  IF Cardinality(a.streams) >= config.max_num_streams THEN
    [a |-> a, result |-> Ret("Err", "TooManyStreams")]
  ELSE IF next_stream_id.kind # "Ok" THEN
    [a |-> a, result |-> next_stream_id]
  ELSE
    LET id == next_stream_id.val
        extra_credit == config.receive_window - DEFAULT_CREDIT
        b == IF extra_credit > 0
             THEN [a EXCEPT !.pending_frames =
                      Append(@, [window_update(id, extra_credit) EXCEPT !.flags = {"SYN"}])]
             ELSE a
        s0 == Stream_new(config.receive_window + extra_credit, DEFAULT_CREDIT, "local")
        s1 == IF extra_credit = 0 THEN [s0 EXCEPT !.flag = "Syn"] ELSE s0
    IN [a |-> insert_stream(b, id, s1), result |-> Ret("Ok", id)]

\* A faulty new_outbound that does not test whether the table is full.
new_outbound_nocap(a) ==
  IF next_stream_id.kind # "Ok" THEN
    [a |-> a, result |-> next_stream_id]
  ELSE
    LET id == next_stream_id.val
        extra_credit == config.receive_window - DEFAULT_CREDIT
        b == IF extra_credit > 0
             THEN [a EXCEPT !.pending_frames =
                      Append(@, [window_update(id, extra_credit) EXCEPT !.flags = {"SYN"}])]
             ELSE a
        s0 == Stream_new(config.receive_window, DEFAULT_CREDIT, "local")
        s1 == IF extra_credit = 0 THEN [s0 EXCEPT !.flag = "Syn"] ELSE s0
    IN [a |-> insert_stream(b, id, s1), result |-> Ret("Ok", id)]

\* A faulty new_outbound that sets the SYN flag on the stream even when it
\* has queued a window update carrying SYN.
new_outbound_both(a) ==
  IF Cardinality(a.streams) >= config.max_num_streams THEN
    [a |-> a, result |-> Ret("Err", "TooManyStreams")]
  ELSE IF next_stream_id.kind # "Ok" THEN
    [a |-> a, result |-> next_stream_id]
  ELSE
    LET id == next_stream_id.val
        extra_credit == config.receive_window - DEFAULT_CREDIT
        b == IF extra_credit > 0
             THEN [a EXCEPT !.pending_frames =
                      Append(@, [window_update(id, extra_credit) EXCEPT !.flags = {"SYN"}])]
             ELSE a
        s0 == Stream_new(config.receive_window, DEFAULT_CREDIT, "local")
        s1 == [s0 EXCEPT !.flag = "Syn"]
    IN [a |-> insert_stream(b, id, s1), result |-> Ret("Ok", id)]

\* Active::new_outbound: the engine afterwards and the result.
new_outbound(a) ==
  IF Cardinality(a.streams) >= config.max_num_streams THEN
    [a |-> a, result |-> Ret("Err", "TooManyStreams")]
  ELSE IF next_stream_id.kind # "Ok" THEN
    [a |-> a, result |-> next_stream_id]
  ELSE
    LET id == next_stream_id.val
        extra_credit == config.receive_window - DEFAULT_CREDIT
        b == IF extra_credit > 0
             THEN [a EXCEPT !.pending_frames =
                      Append(@, [window_update(id, extra_credit) EXCEPT !.flags = {"SYN"}])]
             ELSE a
        s0 == Stream_new(config.receive_window, DEFAULT_CREDIT, "local")
        s1 == IF extra_credit = 0 THEN [s0 EXCEPT !.flag = "Syn"] ELSE s0
    IN [a |-> insert_stream(b, id, s1), result |-> Ret("Ok", id)]

\* A faulty queue that takes a frame at its front.
push_front(queue, f) == << f >> \o queue

\* VecDeque::push_back on pending_frames
push_back(queue, f) == Append(queue, f)

\* Active::on_send_frame / Active::on_close_stream: the frame a command becomes.
command_frame(cmd) ==
  IF cmd.kind = "SendFrame" THEN cmd.frame ELSE close_stream(cmd.id, cmd.ack)

SendFrame(f) == [kind |-> "SendFrame", frame |-> f, id |-> f.id, ack |-> FALSE]
CloseStream(id, ack) == [kind |-> "CloseStream", frame |-> close_stream(id, ack), id |-> id, ack |-> ack]

(* ---------------------------------------------------------------------- *)
(* Initial state: Connection::new                                         *)
(* ---------------------------------------------------------------------- *)

Init ==
  /\ swept_rst = {}
  /\ overflow_checks = TRUE
  /\ mode \in Modes
  /\ config \in Configs
  /\ inner = "Active"
  /\ pc = "idle"
  /\ op = "none"
  /\ ret = NoRet
  /\ next_id = first_id(mode)
  /\ streams = {}
  /\ shared = [i \in {} |-> 0]
  /\ handles = {}
  /\ pending_frames = << >>
  /\ cmds = << >>
  /\ inflight = << >>
  /\ rx_closed = FALSE
  /\ closing_state = "ClosingStreamReceiver"
  /\ cleanup_error = "None"
  /\ sent = << >>
  /\ recv = << >>
  /\ goaway_sent = FALSE
  /\ sock = "open"
  /\ nframes = 0

(* ---------------------------------------------------------------------- *)
(* The Connection facade                                                  *)
(* ---------------------------------------------------------------------- *)

\* The step returns from no facade call / writes nothing to the socket / reads
\* no frame from it.
NoReturn == ret' = NoRet
NoWrite == sent' = << >>
NoRead == recv' = << >>

SetEng(b) ==
  /\ streams' = b.streams
  /\ shared' = b.shared
  /\ handles' = b.handles
  /\ pending_frames' = b.pending_frames

\* A facade call returns `r` leaving `state` in self.inner.
Finish(o, state, r) ==
  /\ inner' = state
  /\ pc' = "idle"
  /\ op' = "none"
  /\ ret' = Returned(o, r)

\* A faulty facade that never takes up a driver it has put back.
TakeDriver_never(o) == FALSE

\* std::mem::replace(&mut self.inner, Poisoned) on a Closing or Cleanup driver:
\* the call `o` now polls that driver.
TakeDriver(o) ==
  /\ inner \in {"Closing", "Cleanup"}
  /\ pc' = inner
  /\ inner' = "Poisoned"
  /\ op' = o
  /\ UNCHANGED << swept_rst, overflow_checks, mode, config,
                  goaway_sent, next_id, streams, shared, handles,
                  pending_frames, cmds, inflight, rx_closed, closing_state,
                  cleanup_error, sock, nframes >>
  /\ NoRead
  /\ NoReturn
  /\ NoWrite

\* The ConnectionState::Poisoned arm: unreachable!() panics.
HitPoisoned(o) ==
  /\ inner = "Poisoned"
  /\ Finish(o, "Poisoned", Ret("Panic", "unreachable"))
  /\ UNCHANGED << swept_rst, overflow_checks, mode, config,
                  goaway_sent, next_id, streams, shared, handles,
                  pending_frames, cmds, inflight, rx_closed, closing_state,
                  cleanup_error, sock, nframes >>
  /\ NoRead
  /\ NoWrite

\* A faulty Active::cleanup that forgets drop_all_streams.
cleanup_keep(o, a, e) ==
  /\ streams' = a.streams
  /\ shared' = a.shared
  /\ handles' = a.handles
  /\ pending_frames' = << >>
  /\ sock' = "dropped"
  /\ cleanup_error' = e
  /\ nframes' = 0
  /\ goaway_sent' = FALSE
  /\ inner' = "Poisoned"
  /\ pc' = "Cleanup"
  /\ op' = o
  /\ NoReturn

\* self.inner = Cleanup(active.cleanup(e)); continue.  Active::cleanup drops all
\* streams and keeps only the command receiver; the facade loops and takes the
\* Cleanup driver out of self.inner again.
cleanup(o, a, e) ==
  LET b == drop_all_streams(a) IN
  /\ streams' = b.streams
  /\ shared' = b.shared
  /\ handles' = b.handles
  /\ pending_frames' = << >>
  /\ sock' = "dropped"
  /\ cleanup_error' = e
  /\ nframes' = 0
  /\ goaway_sent' = FALSE
  /\ inner' = "Poisoned"
  /\ pc' = "Cleanup"
  /\ op' = o
  /\ NoReturn

\* A panic inside active.poll unwinds through the facade call `o`: the engine
\* taken out of self.inner is dropped with its stream table, its pending frames,
\* the command receiver and the socket; no stream is closed or woken, and
\* self.inner stays Poisoned.
unwind(o, a) ==
  /\ streams' = {}
  /\ shared' = Restrict(a.shared, DOMAIN a.shared \cap a.handles)
  /\ handles' = a.handles
  /\ pending_frames' = << >>
  /\ cmds' = << >>
  /\ inflight' = << >>
  /\ rx_closed' = TRUE
  /\ sock' = "dropped"
  /\ nframes' = 0
  /\ goaway_sent' = FALSE
  /\ UNCHANGED cleanup_error
  /\ Finish(o, "Poisoned", Ret("Panic", "overflow"))

\* Connection::poll_new_outbound, up to the first poll of a driver.
poll_new_outbound ==
  /\ pc = "idle"
  /\ \/ /\ inner = "Active"
        /\ opened < MaxOpens
        /\ Len(pending_frames) < MaxPending
        /\ LET r == new_outbound(Eng) IN
           IF r.result.kind = "Ok" THEN
             /\ SetEng(r.a)
             /\ next_id' = next_id + 2
             /\ Finish("new_outbound", "Active", r.result)
             /\ UNCHANGED << sock, cleanup_error, nframes, goaway_sent >>
           ELSE IF r.result.kind = "Err" THEN
             /\ cleanup("new_outbound", r.a, r.result.val)
             /\ UNCHANGED next_id
           ELSE
             /\ SetEng(r.a)
             /\ Finish("new_outbound", "Poisoned", r.result)
             /\ UNCHANGED << next_id, sock, cleanup_error, nframes, goaway_sent >>
        /\ UNCHANGED << swept_rst, overflow_checks, mode, config,
                        cmds, inflight, rx_closed, closing_state >>
        /\ NoRead
        /\ NoWrite
     \/ TakeDriver("new_outbound")
     \/ /\ inner = "Closed"
        /\ Finish("new_outbound", "Closed", Ret("Err", "Closed"))
        /\ UNCHANGED << swept_rst, overflow_checks, mode, config,
                        goaway_sent, next_id, streams, shared, handles,
                        pending_frames, cmds, inflight, rx_closed, closing_state,
                        cleanup_error, sock, nframes >>
        /\ NoRead
        /\ NoWrite
     \/ HitPoisoned("new_outbound")

\* Connection::poll_next_inbound, up to the first poll of the engine or a driver.
poll_next_inbound ==
  /\ pc = "idle"
  /\ \/ /\ inner = "Active"
        /\ pc' = "Active"
        /\ inner' = "Poisoned"
        /\ op' = "next_inbound"
        /\ UNCHANGED << swept_rst, overflow_checks, mode, config,
                        goaway_sent, next_id, streams, shared, handles,
                        pending_frames, cmds, inflight, rx_closed, closing_state,
                        cleanup_error, sock, nframes >>
        /\ NoRead
        /\ NoReturn
        /\ NoWrite
     \/ TakeDriver("next_inbound")
     \/ /\ inner = "Closed"
        /\ Finish("next_inbound", "Closed", Ret("None", "None"))
        /\ UNCHANGED << swept_rst, overflow_checks, mode, config,
                        goaway_sent, next_id, streams, shared, handles,
                        pending_frames, cmds, inflight, rx_closed, closing_state,
                        cleanup_error, sock, nframes >>
        /\ NoRead
        /\ NoWrite
     \/ HitPoisoned("next_inbound")

\* Connection::poll_close, up to the first poll of a driver.  An Active engine is
\* converted by Active::close, which hands the receiver, pending_frames and the
\* socket to Closing::new and drops the rest of the engine, the stream table
\* included; the call loops into Closing::poll, whose first iteration
\* (ClosingStreamReceiver) closes the receiver.
poll_close ==
  /\ pc = "idle"
  /\ \/ /\ inner = "Active"
        /\ streams' = {}
        /\ shared' = Restrict(shared, DOMAIN shared \cap handles)
        /\ rx_closed' = TRUE
        /\ closing_state' = "DrainingStreamReceiver"
        /\ nframes' = 0
        /\ goaway_sent' = FALSE
        /\ pc' = "Closing"
        /\ inner' = "Poisoned"
        /\ op' = "close"
        /\ UNCHANGED << swept_rst, overflow_checks, mode, config,
                        next_id, handles, pending_frames, cmds,
                        inflight, cleanup_error, sock >>
        /\ NoRead
        /\ NoReturn
        /\ NoWrite
     \/ TakeDriver("close")
     \/ /\ inner = "Closed"
        /\ Finish("close", "Closed", Ret("Ok", "()"))
        /\ UNCHANGED << swept_rst, overflow_checks, mode, config,
                        goaway_sent, next_id, streams, shared, handles,
                        pending_frames, cmds, inflight, rx_closed, closing_state,
                        cleanup_error, sock, nframes >>
        /\ NoRead
        /\ NoWrite
     \/ HitPoisoned("close")

\* A faulty poll of the command channel that never finds a command.
command_ready_never == FALSE

\* stream_receiver.poll_next_unpin is Ready(Some(command)).
command_ready == cmds # << >>

\* One iteration of the loop of Active::poll, run by poll_next_inbound, with the
\* facade's handling of what the engine returns.  The socket accepts a frame
\* before more than `limit` frames are queued.
ActivePollStep(frames, limit) ==
  /\ pc = "Active"
  /\ \E order \in Orders(dropped_streams(Eng)) :
       LET a1 == garbage_collect(Eng, order) IN
       \/ \* the socket is write-ready and a frame is pending: start_send, continue
          /\ a1.pending_frames # << >>
          /\ SetEng([a1 EXCEPT !.pending_frames = Tail(@)])
          /\ sent' = << Head(a1.pending_frames) >>
          /\ goaway_sent' = (goaway_sent \/ Head(a1.pending_frames) = protocol_error)
          /\ UNCHANGED << inner, pc, op, cmds, inflight, rx_closed, sock, cleanup_error, nframes >>
          /\ NoReturn
          /\ NoRead
       \/ \* start_send or poll_flush fails with an I/O error
          /\ cleanup(op, a1, "Io")
          /\ UNCHANGED << cmds, inflight, rx_closed >>
          /\ NoWrite
          /\ NoRead
       \/ \* a command is ready: on_send_frame / on_close_stream, continue
          /\ command_ready
          /\ Len(a1.pending_frames) < limit
          /\ SetEng([a1 EXCEPT !.pending_frames = push_back(@, command_frame(Head(cmds)))])
          /\ cmds' = Tail(cmds)
          /\ UNCHANGED << inner, pc, op, inflight, rx_closed, sock, cleanup_error,
                          nframes, goaway_sent >>
          /\ NoReturn
          /\ NoWrite
          /\ NoRead
       \/ \* no command is ready and the socket yields a frame
          /\ ~command_ready
          /\ nframes < MaxFrames
          /\ Len(a1.pending_frames) < limit
          /\ \E frame \in frames :
               LET r == on_frame(a1, frame) IN
               /\ recv' = << frame >>
               /\ IF r.result.kind = "Panic" THEN
                    /\ unwind(op, a1)
                  ELSE IF r.result.kind = "Err" THEN
                    /\ cleanup(op, r.a, r.result.val)
                    /\ UNCHANGED << cmds, inflight, rx_closed >>
                  ELSE IF r.result.val = -1 THEN
                    /\ SetEng(r.a)
                    /\ nframes' = nframes + 1
                    /\ UNCHANGED << inner, pc, op, cmds, inflight, rx_closed, sock,
                                    cleanup_error, goaway_sent >>
                    /\ NoReturn
                  ELSE
                    /\ SetEng(r.a)
                    /\ nframes' = nframes + 1
                    /\ Finish(op, "Active", r.result)
                    /\ UNCHANGED << cmds, inflight, rx_closed, sock, cleanup_error,
                                    goaway_sent >>
          /\ NoWrite
       \/ \* no command is ready and the socket is at end of stream
          /\ ~command_ready
          /\ cleanup(op, a1, "Closed")
          /\ UNCHANGED << cmds, inflight, rx_closed >>
          /\ NoWrite
          /\ NoRead
       \/ \* no command is ready and the socket has no frame: Poll::Pending
          /\ ~command_ready
          /\ SetEng(a1)
          /\ Finish(op, "Active", Ret("Pending", "None"))
          /\ UNCHANGED << cmds, inflight, rx_closed, sock, cleanup_error, nframes,
                          goaway_sent >>
          /\ NoWrite
          /\ NoRead
  /\ UNCHANGED << overflow_checks, mode, config, next_id, closing_state >>

\* The iteration, keeping no history of the sweep.
ActivePollFrom(frames, limit) ==
  /\ ActivePollStep(frames, limit)
  /\ UNCHANGED swept_rst

\* The streams for which the sweep of this iteration queues an RST.
sweep_resets(a) ==
  { id \in dropped_streams(a) : gc_frame(a.shared[id], id) = << rst_frame(id) >> }

\* The iteration, recording the streams for which its sweep queued an RST.
ActivePollTraced ==
  /\ ActivePollStep(InFrames, MaxPending)
  /\ swept_rst' = swept_rst \cup sweep_resets(Eng)

ActivePollUpTo(limit) == ActivePollFrom(InFrames, limit)

ActivePoll == ActivePollUpTo(MaxPending)

\* The same iteration with a socket that lets one more frame queue up.
ActivePollBusy == ActivePollUpTo(MaxPending + 1)

(* ---------------------------------------------------------------------- *)
(* The Closing driver (closing.rs) and the Cleanup driver (cleanup.rs)    *)
(* ---------------------------------------------------------------------- *)

\* The driver is dropped with the facade call's result: so is the socket it owns.
DropSocket == sock' = IF sock = "closed" THEN "closed" ELSE "dropped"

\* Closing::poll returned `r` to the facade call `op`.
ClosingReturns(r) ==
  IF r.kind = "Pending" THEN
    /\ Finish(op, "Closing", r)
    /\ UNCHANGED << sock, pending_frames, cmds >>
  ELSE IF r.kind = "Ok" THEN
    /\ Finish(op, "Closed",
              CASE op = "new_outbound" -> Ret("Err", "Closed")
                [] op = "next_inbound" -> Ret("None", "None")
                [] op = "close" -> Ret("Ok", "()"))
    /\ sock' = "closed"
    /\ pending_frames' = << >>
    /\ cmds' = << >>
  ELSE
    \* poll_close applies `?` to the driver's result and returns at once
    /\ Finish(op, IF op = "close" THEN "Poisoned" ELSE "Closed", r)
    /\ DropSocket
    /\ pending_frames' = << >>
    /\ cmds' = << >>

\* A faulty Closing::poll that skips SendingTermFrame.
ClosingPoll_noterm ==
  /\ pc = "Closing"
  /\ \/ /\ closing_state = "DrainingStreamReceiver"
        /\ rx_closed' = TRUE
        /\ IF cmds # << >> THEN
             /\ pending_frames' = Append(pending_frames, command_frame(Head(cmds)))
             /\ cmds' = Tail(cmds)
             /\ UNCHANGED << inner, pc, op, closing_state, sock >>
             /\ NoReturn
           ELSE IF inflight # << >> THEN
             /\ ClosingReturns(Ret("Pending", "None"))
             /\ UNCHANGED closing_state
           ELSE
             \* None: straight on to FlushingPendingFrames
             /\ pending_frames' = pending_frames
             /\ closing_state' = "FlushingPendingFrames"
             /\ UNCHANGED << inner, pc, op, cmds, sock >>
             /\ NoReturn
        /\ NoWrite
     \/ /\ closing_state = "FlushingPendingFrames"
        /\ \/ \* poll_ready is pending
              /\ ClosingReturns(Ret("Pending", "None"))
              /\ UNCHANGED closing_state
              /\ NoWrite
           \/ \* poll_ready or start_send fails
              /\ ClosingReturns(Ret("Err", "Io"))
              /\ UNCHANGED closing_state
              /\ NoWrite
           \/ \* ready: send the next frame
              /\ pending_frames # << >>
              /\ sent' = << Head(pending_frames) >>
              /\ pending_frames' = Tail(pending_frames)
              /\ UNCHANGED << inner, pc, op, closing_state, sock, cmds >>
              /\ NoReturn
           \/ \* ready: nothing left to send: ClosingSocket, whose iteration polls
              \* the socket's close
              /\ pending_frames = << >>
              /\ closing_state' = "ClosingSocket"
              /\ \E r \in {Ret("Pending", "None"), Ret("Err", "Io"), Ret("Ok", "()")} :
                   ClosingReturns(r)
              /\ NoWrite
        /\ UNCHANGED rx_closed
     \/ /\ closing_state = "ClosingSocket"
        /\ \E r \in {Ret("Pending", "None"), Ret("Err", "Io"), Ret("Ok", "()")} :
             ClosingReturns(r)
        /\ UNCHANGED << rx_closed, closing_state >>
        /\ NoWrite
  /\ UNCHANGED << swept_rst, overflow_checks, mode, config,
                  goaway_sent, next_id, streams, shared, handles, inflight,
                  cleanup_error, nframes >>
  /\ NoRead

\* Closing::poll up to the next point where it touches a queue or the socket,
\* with the facade's handling of what the driver returns.
ClosingPoll ==
  /\ pc = "Closing"
  /\ \/ /\ closing_state = "DrainingStreamReceiver"
        /\ rx_closed' = TRUE
        /\ IF cmds # << >> THEN
             /\ pending_frames' = push_back(pending_frames, command_frame(Head(cmds)))
             /\ cmds' = Tail(cmds)
             /\ UNCHANGED << inner, pc, op, closing_state, sock >>
             /\ NoReturn
           ELSE IF inflight # << >> THEN
             /\ ClosingReturns(Ret("Pending", "None"))
             /\ UNCHANGED closing_state
           ELSE
             \* None: SendingTermFrame, whose iteration appends the terminator
             /\ pending_frames' = push_back(pending_frames, term)
             /\ closing_state' = "FlushingPendingFrames"
             /\ UNCHANGED << inner, pc, op, cmds, sock >>
             /\ NoReturn
        /\ NoWrite
     \/ /\ closing_state = "FlushingPendingFrames"
        /\ \/ \* poll_ready is pending
              /\ ClosingReturns(Ret("Pending", "None"))
              /\ UNCHANGED closing_state
              /\ NoWrite
           \/ \* poll_ready or start_send fails
              /\ ClosingReturns(Ret("Err", "Io"))
              /\ UNCHANGED closing_state
              /\ NoWrite
           \/ \* ready: send the next frame
              /\ pending_frames # << >>
              /\ sent' = << Head(pending_frames) >>
              /\ pending_frames' = Tail(pending_frames)
              /\ UNCHANGED << inner, pc, op, closing_state, sock, cmds >>
              /\ NoReturn
           \/ \* ready: nothing left to send: ClosingSocket, whose iteration polls
              \* the socket's close
              /\ pending_frames = << >>
              /\ closing_state' = "ClosingSocket"
              /\ \E r \in {Ret("Pending", "None"), Ret("Err", "Io"), Ret("Ok", "()")} :
                   ClosingReturns(r)
              /\ NoWrite
        /\ UNCHANGED rx_closed
     \/ /\ closing_state = "ClosingSocket"
        /\ \E r \in {Ret("Pending", "None"), Ret("Err", "Io"), Ret("Ok", "()")} :
             ClosingReturns(r)
        /\ UNCHANGED << rx_closed, closing_state >>
        /\ NoWrite
  /\ UNCHANGED << swept_rst, overflow_checks, mode, config,
                  goaway_sent, next_id, streams, shared, handles, inflight,
                  cleanup_error, nframes >>
  /\ NoRead

\* One iteration of the loop of Cleanup::poll: close the receiver, discard a
\* queued command, and yield the error once the channel is drained; with the
\* facade's handling of what the driver returns.
CleanupPoll ==
  /\ pc = "Cleanup"
  /\ rx_closed' = TRUE
  /\ IF cmds # << >> THEN
       /\ cmds' = Tail(cmds)
       /\ UNCHANGED << inner, pc, op >>
       /\ NoReturn
     ELSE IF inflight # << >> THEN
       /\ Finish(op, "Cleanup", Ret("Pending", "None"))
       /\ UNCHANGED cmds
     ELSE
       /\ Finish(op, "Closed",
                 CASE op = "new_outbound" -> Ret("Err", cleanup_error)
                   [] op = "next_inbound" ->
                        IF cleanup_error = "Closed" THEN Ret("None", "None")
                        ELSE Ret("Err", cleanup_error)
                   [] op = "close" -> Ret("Ok", "()"))
       /\ UNCHANGED cmds
  /\ UNCHANGED << swept_rst, overflow_checks, mode, config,
                  goaway_sent, next_id, streams, shared, handles,
                  pending_frames, inflight, closing_state, cleanup_error, sock,
                  nframes >>
  /\ NoRead
  /\ NoWrite

\* Drop for Connection: an Active engine drops all its streams; every field of
\* the connection is dropped with it.
DropConnection ==
  /\ pc = "idle"
  /\ pc' = "dropped"
  /\ IF inner = "Active"
     THEN LET b == drop_all_streams(Eng) IN
          /\ streams' = b.streams
          /\ shared' = b.shared
     ELSE UNCHANGED << streams, shared >>
  /\ rx_closed' = TRUE
  /\ pending_frames' = << >>
  /\ cmds' = << >>
  /\ inflight' = << >>
  /\ DropSocket
  /\ nframes' = 0
  /\ goaway_sent' = FALSE
  /\ UNCHANGED << swept_rst, overflow_checks, mode, config,
                  inner, op, next_id, handles, closing_state,
                  cleanup_error >>
  /\ NoRead
  /\ NoReturn
  /\ NoWrite

(* ---------------------------------------------------------------------- *)
(* Stream handles (stream.rs)                                             *)
(* ---------------------------------------------------------------------- *)

\* Sender::poll_ready succeeds: the receiver is open and a slot is free.
CanSend == ~rx_closed /\ inflight = << >> /\ Len(cmds) < MaxBacklog

\* Stream::poll_read
StreamRead(id) ==
  /\ id \in handles
  /\ LET sh == shared[id] IN
     IF sh.buffer # << >> THEN
       LET s1 == [sh EXCEPT !.buffer = << >>]
           upd == IF config.window_update_mode = "OnRead"
                  THEN next_window_update(s1) ELSE << >>
       IN IF upd # << >> /\ CanSend
          THEN /\ shared' = [shared EXCEPT ![id] = [s1 EXCEPT !.window = @ + upd[1],
                                                            !.flag = "None"]]
               /\ inflight' = << SendFrame([window_update(id, upd[1]) EXCEPT !.flags =
                                   IF sh.flag = "Syn" THEN {"SYN"}
                                   ELSE IF sh.flag = "Ack" THEN {"ACK"} ELSE {}]) >>
          ELSE /\ shared' = [shared EXCEPT ![id] = s1]
               /\ UNCHANGED inflight
     ELSE
       /\ can_read(sh.state)
       /\ ~sh.reader
       /\ shared' = [shared EXCEPT ![id].reader = TRUE]
       /\ UNCHANGED inflight
  /\ UNCHANGED << swept_rst, overflow_checks, mode, config,
                  goaway_sent, inner, pc, op, next_id,
                  streams, handles, pending_frames, cmds, rx_closed, closing_state,
                  cleanup_error, sock, nframes >>
  /\ NoRead
  /\ NoReturn
  /\ NoWrite

\* Stream::poll_write
StreamWrite(id) ==
  /\ id \in handles
  /\ CanSend
  /\ can_write(shared[id].state)
  /\ LET sh == shared[id] IN
     IF sh.credit = 0 THEN
       /\ ~sh.writer
       /\ shared' = [shared EXCEPT ![id].writer = TRUE]
       /\ UNCHANGED inflight
     ELSE
       LET k == Min(sh.credit, config.split_send_size)
           fl == IF sh.flag = "Syn" THEN {"SYN"}
                 ELSE IF sh.flag = "Ack" THEN {"ACK"} ELSE {}
       IN /\ shared' = [shared EXCEPT ![id] = [sh EXCEPT !.credit = @ - k, !.flag = "None"]]
          /\ inflight' = << SendFrame(Frame("Data", fl, id, k)) >>
  /\ UNCHANGED << swept_rst, overflow_checks, mode, config,
                  goaway_sent, inner, pc, op, next_id,
                  streams, handles, pending_frames, cmds, rx_closed, closing_state,
                  cleanup_error, sock, nframes >>
  /\ NoRead
  /\ NoReturn
  /\ NoWrite

\* Stream::poll_close
StreamClose(id) ==
  /\ id \in handles
  /\ CanSend
  /\ can_write(shared[id].state)
  /\ LET sh == shared[id] IN
     /\ inflight' = << CloseStream(id, sh.flag = "Ack") >>
     /\ shared' = [shared EXCEPT ![id] =
                     [sh EXCEPT !.state = update_state(@, "SendClosed"),
                                !.flag = IF @ = "Ack" THEN "None" ELSE @]]
  /\ UNCHANGED << swept_rst, overflow_checks, mode, config,
                  goaway_sent, inner, pc, op, next_id,
                  streams, handles, pending_frames, cmds, rx_closed, closing_state,
                  cleanup_error, sock, nframes >>
  /\ NoRead
  /\ NoReturn
  /\ NoWrite

\* Sender::start_send completes: the reserved command is in the queue.
SendCommit ==
  /\ inflight # << >>
  /\ cmds' = Append(cmds, inflight[1])
  /\ inflight' = << >>
  /\ UNCHANGED << swept_rst, overflow_checks, mode, config,
                  goaway_sent, inner, pc, op, next_id, streams, shared, handles,
                  pending_frames, rx_closed, closing_state, cleanup_error, sock,
                  nframes >>
  /\ NoRead
  /\ NoReturn
  /\ NoWrite

\* Drop for Stream: the handle's reference goes away.
StreamDrop(id) ==
  /\ id \in handles
  /\ handles' = handles \ {id}
  /\ shared' = IF id \in streams THEN shared ELSE Restrict(shared, DOMAIN shared \ {id})
  /\ UNCHANGED << swept_rst, overflow_checks, mode, config,
                  goaway_sent, inner, pc, op, next_id, streams, pending_frames,
                  cmds, inflight, rx_closed, closing_state, cleanup_error, sock,
                  nframes >>
  /\ NoRead
  /\ NoReturn
  /\ NoWrite

(* ---------------------------------------------------------------------- *)
(* Specification                                                          *)
(* ---------------------------------------------------------------------- *)

Next ==
  \/ poll_new_outbound
  \/ poll_next_inbound
  \/ poll_close
  \/ ActivePoll
  \/ ClosingPoll
  \/ CleanupPoll
  \/ DropConnection
  \/ SendCommit
  \/ \E id \in handles : StreamRead(id)
  \/ \E id \in handles : StreamWrite(id)
  \/ \E id \in handles : StreamClose(id)
  \/ \E id \in handles : StreamDrop(id)

Spec == Init /\ [][Next]_vars

\* The same connection once its stream ids are used up.
InitLate ==
  /\ swept_rst = {}
  /\ overflow_checks = TRUE
  /\ mode \in Modes
  /\ config \in Configs
  /\ inner = "Active"
  /\ pc = "idle"
  /\ op = "none"
  /\ ret = NoRet
  /\ next_id = late_id(mode)
  /\ streams = {}
  /\ shared = [i \in {} |-> 0]
  /\ handles = {}
  /\ pending_frames = << >>
  /\ cmds = << >>
  /\ inflight = << >>
  /\ rx_closed = FALSE
  /\ closing_state = "ClosingStreamReceiver"
  /\ cleanup_error = "None"
  /\ sent = << >>
  /\ recv = << >>
  /\ goaway_sent = FALSE
  /\ sock = "open"
  /\ nframes = 0

SpecLate == InitLate /\ [][Next]_vars

(* ---------------------------------------------------------------------- *)
(* A client whose socket is slow to accept frames                         *)
(* ---------------------------------------------------------------------- *)

InitBusy ==
  /\ swept_rst = {}
  /\ overflow_checks = TRUE
  /\ mode = "Client"
  /\ config = Config(DEFAULT_CREDIT, "OnRead")
  /\ inner = "Active"
  /\ pc = "idle"
  /\ op = "none"
  /\ ret = NoRet
  /\ next_id = first_id(mode)
  /\ streams = {}
  /\ shared = [i \in {} |-> 0]
  /\ handles = {}
  /\ pending_frames = << >>
  /\ cmds = << >>
  /\ inflight = << >>
  /\ rx_closed = FALSE
  /\ closing_state = "ClosingStreamReceiver"
  /\ cleanup_error = "None"
  /\ sent = << >>
  /\ recv = << >>
  /\ goaway_sent = FALSE
  /\ sock = "open"
  /\ nframes = 0

NextBusy ==
  \/ poll_new_outbound
  \/ poll_next_inbound
  \/ poll_close
  \/ ActivePollBusy
  \/ ClosingPoll
  \/ CleanupPoll
  \/ DropConnection
  \/ SendCommit
  \/ \E id \in handles : StreamRead(id)
  \/ \E id \in handles : StreamWrite(id)
  \/ \E id \in handles : StreamClose(id)
  \/ \E id \in handles : StreamDrop(id)

SpecBusy == InitBusy /\ [][NextBusy]_vars

(* ---------------------------------------------------------------------- *)
(* A client under each arrangement of window and window-update mode       *)
(* ---------------------------------------------------------------------- *)

\* The default window with updates on read or on receipt, and a larger window
\* with updates on receipt.
ConfigsOpening ==
  { Config(DEFAULT_CREDIT, "OnRead"), Config(DEFAULT_CREDIT, "OnReceive"),
    Config(2 * DEFAULT_CREDIT, "OnReceive") }

InitOpening ==
  /\ swept_rst = {}
  /\ overflow_checks = TRUE
  /\ mode = "Client"
  /\ config \in ConfigsOpening
  /\ inner = "Active"
  /\ pc = "idle"
  /\ op = "none"
  /\ ret = NoRet
  /\ next_id = first_id(mode)
  /\ streams = {}
  /\ shared = [i \in {} |-> 0]
  /\ handles = {}
  /\ pending_frames = << >>
  /\ cmds = << >>
  /\ inflight = << >>
  /\ rx_closed = FALSE
  /\ closing_state = "ClosingStreamReceiver"
  /\ cleanup_error = "None"
  /\ sent = << >>
  /\ recv = << >>
  /\ goaway_sent = FALSE
  /\ sock = "open"
  /\ nframes = 0

SpecOpening == InitOpening /\ [][Next]_vars

(* ---------------------------------------------------------------------- *)
(* A client that is sent every credit the header can encode               *)
(* ---------------------------------------------------------------------- *)

\* Credits of the window updates on the wire: none, the default, the largest
\* that DEFAULT_CREDIT can be added to, and the largest the field holds.
WideCredits == {0, DEFAULT_CREDIT, MAX_CREDIT - DEFAULT_CREDIT, MAX_CREDIT}
InFramesWide ==
  { Frame("WindowUpdate", fl, i, l) :
       fl \in StreamFlagSets, i \in WireIds, l \in WideCredits }

ActivePollWide == ActivePollFrom(InFramesWide, MaxPending)

\* Either build of the library.
InitCredit ==
  /\ swept_rst = {}
  /\ overflow_checks \in BOOLEAN
  /\ mode = "Client"
  /\ config = Config(DEFAULT_CREDIT, "OnRead")
  /\ inner = "Active"
  /\ pc = "idle"
  /\ op = "none"
  /\ ret = NoRet
  /\ next_id = first_id(mode)
  /\ streams = {}
  /\ shared = [i \in {} |-> 0]
  /\ handles = {}
  /\ pending_frames = << >>
  /\ cmds = << >>
  /\ inflight = << >>
  /\ rx_closed = FALSE
  /\ closing_state = "ClosingStreamReceiver"
  /\ cleanup_error = "None"
  /\ sent = << >>
  /\ recv = << >>
  /\ goaway_sent = FALSE
  /\ sock = "open"
  /\ nframes = 0

NextCredit ==
  \/ poll_new_outbound
  \/ poll_next_inbound
  \/ poll_close
  \/ ActivePollWide
  \/ ClosingPoll
  \/ CleanupPoll
  \/ DropConnection
  \/ SendCommit
  \/ \E id \in handles : StreamRead(id)
  \/ \E id \in handles : StreamWrite(id)
  \/ \E id \in handles : StreamClose(id)
  \/ \E id \in handles : StreamDrop(id)

SpecCredit == InitCredit /\ [][NextCredit]_vars

(* ---------------------------------------------------------------------- *)
(* A connection at the start and near the end of its stream ids           *)
(* ---------------------------------------------------------------------- *)

InitIds ==
  /\ swept_rst = {}
  /\ overflow_checks = TRUE
  /\ mode \in Modes
  /\ config = Config(DEFAULT_CREDIT, "OnRead")
  /\ inner = "Active"
  /\ pc = "idle"
  /\ op = "none"
  /\ ret = NoRet
  /\ next_id \in {first_id(mode), last_id(mode)}
  /\ streams = {}
  /\ shared = [i \in {} |-> 0]
  /\ handles = {}
  /\ pending_frames = << >>
  /\ cmds = << >>
  /\ inflight = << >>
  /\ rx_closed = FALSE
  /\ closing_state = "ClosingStreamReceiver"
  /\ cleanup_error = "None"
  /\ sent = << >>
  /\ recv = << >>
  /\ goaway_sent = FALSE
  /\ sock = "open"
  /\ nframes = 0

SpecIds == InitIds /\ [][Next]_vars

(* ---------------------------------------------------------------------- *)
(* A client whose sweeps are recorded                                     *)
(* ---------------------------------------------------------------------- *)

NextReset ==
  \/ poll_new_outbound
  \/ poll_next_inbound
  \/ poll_close
  \/ ActivePollTraced
  \/ ClosingPoll
  \/ CleanupPoll
  \/ DropConnection
  \/ SendCommit
  \/ \E id \in handles : StreamRead(id)
  \/ \E id \in handles : StreamWrite(id)
  \/ \E id \in handles : StreamClose(id)
  \/ \E id \in handles : StreamDrop(id)

SpecReset == InitBusy /\ [][NextReset]_vars

(* ---------------------------------------------------------------------- *)
(* Properties                                                             *)
(* ---------------------------------------------------------------------- *)

\* The facade's state: the driver a running call has taken out of `inner`
\* counts as the state the facade is in.
FacadeState == IF pc \in {"idle", "dropped"} THEN inner ELSE pc

\* The handle's reader or writer is parked.
Parked(id) == shared[id].reader \/ shared[id].writer

\* C1: every live stream record has the id parity of its origin: a locally
\* opened stream has the parity of the mode (Client odd, Server even), a
\* remotely opened one has the opposite parity and is not the session id 0;
\* and next_id keeps the parity of the mode, so that the assertions of
\* next_stream_id hold.
C1_IdParity ==
  /\ \A id \in DOMAIN shared :
       IF shared[id].origin = "local"
       THEN IF mode = "Client" THEN id % 2 = 1 ELSE id % 2 = 0
       ELSE IF mode = "Client" THEN id % 2 = 0 /\ id # CONNECTION_ID ELSE id % 2 = 1
  /\ next_stream_id.kind # "Panic"

\* C2: once the facade is Closed, by Closing or by Cleanup, no held handle is
\* left suspended: every parked reader and writer has been woken.
C2_NoDanglingHandles ==
  [][ (FacadeState # "Closed" /\ FacadeState' = "Closed")
      => \A id \in handles' : ~Parked(id)' ]_vars

\* C3: an open-outbound that fails with TooManyStreams or NoMoreStreamIds
\* leaves the facade Active, and the full table that caused TooManyStreams is
\* still there.
C3_OpenFailureNonFatal ==
  (ret.op = "new_outbound" /\ ret.kind = "Err"
     /\ ret.val \in {"TooManyStreams", "NoMoreStreamIds"})
  => /\ FacadeState = "Active"
     /\ ret.val = "TooManyStreams" => Cardinality(streams) >= config.max_num_streams

\* The stream table as the frame dispatch of an iteration finds it: the
\* iteration's sweep has removed the streams whose handle was dropped.
SweptTable == streams \cap handles

\* The frame the step read, if any.
Received == Range(recv')

\* C4: after a protocol violation was answered and the GoAway(ProtocolError)
\* written to the socket, the connection is terminated: no facade call
\* leaves the facade Active, and open-outbound yields no new stream.
C4_ViolationTerminates ==
  goaway_sent => /\ pc = "idle" => inner # "Active"
                 /\ ~(ret.op = "new_outbound" /\ ret.kind = "Ok")

\* C6: a SYN for a valid unused remote id that finds the table full is
\* answered with GoAway(InternalError), on a Data frame and on a WindowUpdate
\* frame alike.
C6_TableFullInternalError ==
  [][ \A f \in Received :
        ( /\ f.tag \in {"Data", "WindowUpdate"}
          /\ "SYN" \in f.flags /\ "RST" \notin f.flags
          /\ IF mode = "Client" THEN f.id % 2 = 0 ELSE f.id % 2 = 1
          /\ f.tag = "Data" => f.len <= DEFAULT_CREDIT
          /\ f.id \notin SweptTable
          /\ Cardinality(SweptTable) = config.max_num_streams )
        => /\ pending_frames' # << >>
           /\ pending_frames'[Len(pending_frames')] = internal_error ]_vars

\* C8: a close invoked after a close has returned returns at once without
\* failing, leaves the facade Closed and writes no frame.
C8_CloseIdempotent ==
  [][ (ret.op = "close" /\ ret.kind \in {"Ok", "Err"} /\ ret'.op = "close")
      => (ret'.kind = "Ok" /\ inner' = "Closed" /\ sent' = << >>) ]_vars

\* C9: whenever no facade call is running, the facade is Active, Closing,
\* Cleanup or Closed: never Poisoned.
C9_NeverPoisoned ==
  pc = "idle" => inner \in {"Active", "Closing", "Cleanup", "Closed"}

\* The id has the parity of this side's own streams.
WrongParity(id) == IF mode = "Client" THEN id % 2 = 1 ELSE id % 2 = 0

\* A SYN that the validation rejects: wrong parity, an initial body longer
\* than DEFAULT_CREDIT, or an id already in the table.
RejectedSyn(f) ==
  /\ f.tag \in {"Data", "WindowUpdate"}
  /\ "SYN" \in f.flags /\ "RST" \notin f.flags
  /\ \/ WrongParity(f.id)
     \/ f.tag = "Data" /\ f.len > DEFAULT_CREDIT
     \/ f.id \in SweptTable

\* A data frame for a stream in the table whose body exceeds the window.
OverWindow(f) ==
  /\ f.tag = "Data"
  /\ f.flags \cap {"SYN", "RST"} = {}
  /\ f.id \in SweptTable
  /\ f.len > shared[f.id].window

\* pending_frames after the step is the queue the iteration's sweep left,
\* followed by `tail`.
Appended(tail) ==
  \E order \in Orders(dropped_streams(Eng)) :
     pending_frames' = garbage_collect(Eng, order).pending_frames \o tail

\* The step's dispatch left the table and every record in it as the sweep
\* left them, and handed out no stream.
TableUntouched ==
  /\ streams' = SweptTable
  /\ handles' = handles
  /\ \A id \in SweptTable : shared'[id] = shared[id]
  /\ ret' = NoRet

\* C5: the dispatch of a rejected SYN (wrong parity, initial body longer than
\* DEFAULT_CREDIT, id already in the table) or of a data frame exceeding the
\* stream's window appends exactly one GoAway(ProtocolError) to
\* pending_frames, creates and yields no stream, and leaves the table and
\* every record in it unchanged.
C5_RejectionLeavesStreams ==
  [][ \A f \in Received :
        (RejectedSyn(f) \/ OverWindow(f))
        => (Appended(<< protocol_error >>) /\ TableUntouched) ]_vars

\* C5 happens: a second SYN for an id in the table was answered with one
\* GoAway(ProtocolError).
C5_Witness ==
  \E f \in Range(recv) :
     /\ "SYN" \in f.flags /\ "RST" \notin f.flags
     /\ ~WrongParity(f.id)
     /\ f.id \in streams
     /\ pending_frames = << protocol_error >>

\* A frame for a stream id that is not in the table.
UnknownId(f) == f.tag \in {"Data", "WindowUpdate", "Ping"} /\ f.id \notin SweptTable

\* The engine ignored the frame: the call keeps polling the Active engine,
\* nothing was appended to pending_frames and no stream appeared.
Ignored == pc' = "Active" /\ Appended(<< >>) /\ TableUntouched

Monotone(s, t) == (t = "Open" => s = "Open") /\ (s = "Closed" => t = "Closed")

\* C10: the state of a stream record never returns to Open and never leaves
\* Closed, whatever step is taken (inbound FIN or RST, local close, handle
\* drop, teardown), and the sweep leaves every record it removes Closed.
C10_MonotonicState ==
  [][ /\ \A id \in handles \cap handles' :
           Monotone(shared[id].state, shared'[id].state)
      /\ \A order \in Orders(dropped_streams(Eng)) : \A id \in Range(order) :
           Monotone(shared[id].state, gc_sweep(Eng, order).shared[id].state) ]_vars

\* C10 happens: a FIN arrived for a held stream that is Closed.
C10_Witness ==
  \E f \in Range(recv) :
     /\ "FIN" \in f.flags /\ f.flags \cap {"SYN", "RST"} = {}
     /\ f.id \in streams \cap handles
     /\ shared[f.id].state = "Closed"

\* The credit the WindowUpdate frame read in this step grants stream `id`.
CreditIn(id) ==
  IF \E f \in Received : f.tag = "WindowUpdate" /\ f.id = id
  THEN (CHOOSE f \in Received : TRUE).len ELSE 0

\* The data bytes the handle of stream `id` writes in this step.
BytesOut(id) ==
  IF /\ inflight' # inflight /\ inflight' # << >>
     /\ inflight'[1].kind = "SendFrame"
     /\ inflight'[1].frame.tag = "Data" /\ inflight'[1].frame.id = id
  THEN inflight'[1].frame.len ELSE 0

\* C11: the bytes written on a stream never exceed the initial remote window
\* plus the credits received for it.  Step by step: a stream starts with a
\* credit of at most DEFAULT_CREDIT plus the credit of the frame that opened
\* it, every step's written bytes are taken out of the credit, the credit
\* grows only by the credit of a WindowUpdate frame received for the stream,
\* and it never falls below zero.
C11_CreditConservation ==
  [][ /\ \A id \in handles' \ handles :
           /\ shared'[id].credit >= 0
           /\ shared'[id].credit <= DEFAULT_CREDIT + CreditIn(id)
      /\ \A id \in handles \cap handles' :
           /\ shared'[id].credit >= 0
           /\ shared'[id].credit + BytesOut(id) <= shared[id].credit + CreditIn(id) ]_vars

\* C11 happens: a handle has written its whole credit out and its next write
\* found no credit left.
C11_Witness ==
  \E id \in handles :
     /\ shared[id].credit = 0
     /\ shared[id].writer
     /\ \E i \in DOMAIN pending_frames :
          pending_frames[i].tag = "Data" /\ pending_frames[i].id = id
                                         /\ pending_frames[i].len = DEFAULT_CREDIT

\* A data frame a peer running this implementation sends on an established
\* stream it has not finished: no SYN or RST, no FIN received before, at most
\* split_send_size bytes, within the window.
InWindow(f) ==
  /\ f.tag = "Data"
  /\ f.flags \cap {"SYN", "RST"} = {}
  /\ f.id \in SweptTable /\ ~is_session(f.id)
  /\ can_read(shared[f.id].state)
  /\ f.len <= config.split_send_size
  /\ f.len <= shared[f.id].window

\* The frame's body was appended to the tail of the stream's buffer, the
\* chunks already buffered stay in front of it, and the reader was woken.
Stored(f) ==
  /\ shared'[f.id].buffer = push(shared[f.id].buffer, f.len)
  /\ ~shared'[f.id].reader
  /\ "FIN" \in f.flags => ~can_read(shared'[f.id].state)

C14_FinalFrameGoAway ==
  [][ /\ (pc = "Closing" /\ sent' # << >> /\ pending_frames' = << >>)
           => sent' = << term >>
      /\ \A f \in Received :
           f = term => \/ sent' = << term >>
                       \/ /\ sock' = "open" /\ pending_frames' # << >>
                          /\ pending_frames'[Len(pending_frames')] = term ]_vars

\* C14, amended: on the side that issues close, the Closing driver appends
\* GoAway(Normal) behind every other frame, appends nothing after it, and
\* returns Ok only when the queue is flushed, so GoAway(Normal) is the last
\* frame written; the side that receives the GoAway emits nothing more: it
\* drops its queue and its socket.
C14_CloserFinalFrameGoAway ==
  [][ /\ (pc = "Closing" /\ sent' # << >> /\ pending_frames' = << >>)
           => sent' = << term >>
      /\ (pc = "Closing" /\ closing_state # "DrainingStreamReceiver")
           => /\ Len(pending_frames') <= Len(pending_frames)
              /\ pending_frames # << >> => pending_frames[Len(pending_frames)] = term
      /\ (pc = "Closing" /\ ret'.kind = "Ok")
           => pending_frames = << >> /\ closing_state' = "ClosingSocket"
      /\ \A f \in Received :
           f = term => sent' = << >> /\ pending_frames' = << >> /\ sock' = "dropped"
    ]_vars

\* C14 happens: the Closing driver has written GoAway(Normal) and the close
\* returned Ok.
C14_Witness ==
  /\ ret.op = "close" /\ ret.kind = "Ok"
  /\ inner = "Closed" /\ sock = "closed"
  /\ closing_state = "ClosingSocket"

\* The engine ends the connection in this step because the peer said GoAway or
\* the socket reached end of stream: it reports Closed and the facade moves
\* to Cleanup.
PeerClosed == pc = "Active" /\ pc' = "Cleanup" /\ cleanup_error' = "Closed"

\* C15: a GoAway frame or the socket's end of stream, met while Active, makes
\* the engine report Closed; the facade goes to Cleanup and from there only
\* to Closed; no frame is emitted from then on; every stream is force-closed
\* and its wakers woken; and poll-next-inbound reports end of stream, not an
\* error, when it completes and on every later call.
C15_PeerCloseEndsStream ==
  [][ /\ \A f \in Received : f.tag = "GoAway" => PeerClosed
      /\ PeerClosed =>
           /\ sent' = << >> /\ pending_frames' = << >>
           /\ streams' = {}
           /\ \A id \in handles' :
                shared'[id].state = "Closed" /\ ~shared'[id].reader /\ ~shared'[id].writer
      /\ (cleanup_error = "Closed" /\ FacadeState \in {"Cleanup", "Closed"}) =>
           /\ FacadeState' \in {"Cleanup", "Closed"}
           /\ FacadeState = "Closed" => FacadeState' = "Closed"
           /\ sent' = << >>
           /\ ret'.op = "next_inbound" =>
                /\ ret'.kind \in {"None", "Pending"}
                /\ ret'.kind = "None" <=> FacadeState' = "Closed"
    ]_vars

\* C15 happens: after the peer's close, poll-next-inbound reported end of
\* stream, the facade is Closed and a held stream was force-closed.
C15_Witness ==
  /\ cleanup_error = "Closed" /\ inner = "Closed"
  /\ ret.op = "next_inbound" /\ ret.kind = "None"
  /\ \E id \in handles : shared[id].state = "Closed"

\* The facade is destroyed while Active in this step, or its engine enters
\* Cleanup after a fatal error.
Destroyed == pc = "idle" /\ inner = "Active" /\ pc' = "dropped"
EntersCleanup == FacadeState = "Active" /\ FacadeState' = "Cleanup"

\* C16: when the facade is destroyed while Active, or the engine enters
\* Cleanup, the stream table is empty afterwards and every stream that was in
\* it and is still held is Closed with neither waker left registered.
C16_DropAllStreams ==
  [][ (Destroyed \/ EntersCleanup) =>
        /\ streams' = {}
        /\ \A id \in streams \cap handles' :
             /\ shared'[id].state = "Closed"
             /\ ~shared'[id].reader /\ ~shared'[id].writer ]_vars

\* C16 happens: the facade was destroyed while Active with a held stream in
\* the table, which is now Closed.
C16_Witness ==
  /\ pc = "dropped" /\ inner = "Active"
  /\ streams = {}
  /\ \E id \in handles : shared[id].state = "Closed" /\ shared[id].buffer # << >>

\* C17: a Ping without ACK for the session id or for a stream in the table
\* is answered with exactly one Ping carrying ACK and the same nonce,
\* appended to pending_frames; a Ping with ACK is answered with nothing; in
\* both cases the stream table and the records are left alone.
C17_PingAnsweredOnce ==
  [][ \A f \in Received :
        f.tag = "Ping" =>
          /\ TableUntouched
          /\ IF "ACK" \in f.flags THEN Appended(<< >>)
             ELSE IF is_session(f.id) \/ f.id \in SweptTable
                  THEN Appended(<< Frame("Ping", {"ACK"}, CONNECTION_ID, f.len) >>)
                  ELSE Appended(<< >>) ]_vars

\* C17 happens: a ping for a live stream was answered with a pong.
C17_Witness ==
  \E f \in Range(recv) :
     /\ f.tag = "Ping" /\ "ACK" \notin f.flags
     /\ f.id \in streams \cap handles /\ ~is_session(f.id)
     /\ pending_frames = << Frame("Ping", {"ACK"}, CONNECTION_ID, f.len) >>

\* C18: the receive window of every stream record, locally or remotely
\* opened, lies between 0 and config.receive_window.
C18_WindowBounds ==
  \A id \in DOMAIN shared :
     0 <= shared[id].window /\ shared[id].window <= config.receive_window

\* C18 happens: a stream's window was used up by the data received and is 0.
C18_Witness ==
  \E id \in handles :
     shared[id].window = 0 /\ shared[id].buffer = << config.receive_window >>

\* C19: the bytes held in a stream's inbound buffer never exceed
\* max_buffer_size.
C19_BufferBound ==
  \A id \in DOMAIN shared : buffer_len(shared[id]) <= config.max_buffer_size

\* C20: a data frame for a stream that is RecvClosed or Closed adds no bytes
\* to the stream's buffer and leaves its window as it was.
C20_NoDataAfterFin ==
  [][ \A f \in Received :
        ( /\ f.tag = "Data" /\ f.flags \cap {"SYN", "RST"} = {}
          /\ f.id \in SweptTable
          /\ ~can_read(shared[f.id].state) )
        => /\ shared'[f.id].buffer = shared[f.id].buffer
           /\ shared'[f.id].window = shared[f.id].window ]_vars

\* C21: a Ping or GoAway frame whose stream id is not the session id 0 is a
\* protocol error: its dispatch appends a GoAway(ProtocolError) to
\* pending_frames and nothing else (no pong).
C21_SessionIdRequired ==
  [][ \A f \in Received :
        (f.tag \in {"Ping", "GoAway"} /\ ~is_session(f.id))
        => Appended(<< protocol_error >>) ]_vars

\* C22: the stream table never holds more than max_num_streams entries:
\* neither an open-outbound nor an inbound SYN (Data or WindowUpdate) adds a
\* stream to a full table.
C22_TableBound == Cardinality(streams) <= config.max_num_streams

\* C22 happens: a SYN for a valid unused id found the table full and added
\* no stream.
C22_Witness ==
  \E f \in Range(recv) :
     /\ f.tag \in {"Data", "WindowUpdate"}
     /\ "SYN" \in f.flags /\ "RST" \notin f.flags
     /\ ~WrongParity(f.id) /\ ~is_session(f.id)
     /\ f.id \notin streams
     /\ Cardinality(streams) = config.max_num_streams
     /\ pc = "Active"

\* One iteration of Active::poll, in either specification.
PollIteration == ActivePoll \/ ActivePollBusy

\* C23: the engine's poll returns Pending only from an iteration that found no
\* command in the command queue, read no frame and wrote none; and while the
\* engine runs with a command in the queue and frames still pending (the
\* socket is not write-ready), the iteration that consumes the command is
\* possible, and so is, with no command in the queue, the iteration that
\* reads an inbound frame.
C23_PendingWhenAllPending ==
  /\ [][ (pc = "Active" /\ ret'.kind = "Pending")
         => (cmds = << >> /\ cmds' = << >> /\ recv' = << >> /\ sent' = << >>) ]_vars
  /\ [] ( ( /\ pc = "Active" /\ cmds # << >>
            /\ dropped_streams(Eng) = {}
            /\ Len(pending_frames) = MaxPending )
          => ENABLED (PollIteration /\ cmds' = Tail(cmds) /\ Len(pending_frames') = MaxPending + 1) )
  /\ [] ( ( /\ pc = "Active" /\ cmds = << >> /\ nframes < MaxFrames
            /\ dropped_streams(Eng) = {}
            /\ Len(pending_frames) = MaxPending )
          => ENABLED (PollIteration /\ recv' # << >> /\ sent' = << >>) )

\* C23 happens: the engine consumed a command while a frame was waiting for
\* the socket.
C23_Witness ==
  /\ pc = "Active"
  /\ Len(pending_frames) = MaxPending + 1
  /\ pending_frames[MaxPending + 1].tag = "Data"
  /\ pending_frames[MaxPending + 1].len = DEFAULT_CREDIT

\* `s` is an initial segment of `t`.
IsPrefix(s, t) == Len(s) <= Len(t) /\ SubSeq(t, 1, Len(s)) = s

\* The Active engine or the Closing driver holds the socket.
Writing == FacadeState \in {"Active", "Closing"} /\ pc # "dropped"

\* pending_frames as the step may find it: as it is, or as the sweep of an
\* iteration of Active::poll leaves it.
SweptQueues ==
  {pending_frames} \cup
  (IF pc = "Active"
   THEN { garbage_collect(Eng, order).pending_frames : order \in Orders(dropped_streams(Eng)) }
   ELSE {})

\* C24: while the Active engine or the Closing driver holds the socket, the
\* queues are first-in first-out.  A step that writes a frame writes the
\* head of pending_frames and removes just that; a step that consumes a
\* command takes the head of the command queue and appends its frame at the
\* tail of pending_frames; a handle's command enters the command queue at
\* its tail; every other step only appends to pending_frames.  A close
\* that succeeds leaves no frame and no command behind.
C24_OutboundFifo ==
  [][ /\ (Writing /\ Writing') =>
           /\ Len(sent') <= 1
           /\ \E g \in SweptQueues :
                /\ IsPrefix(pending_frames, g)
                /\ IF sent' # << >> THEN
                     g = sent' \o pending_frames' /\ cmds' = cmds
                   ELSE IF cmds # << >> /\ cmds' = Tail(cmds) THEN
                     pending_frames' = g \o << command_frame(Head(cmds)) >>
                   ELSE
                     /\ IsPrefix(g, pending_frames')
                     /\ \/ cmds' = cmds
                        \/ inflight # << >> /\ cmds' = Append(cmds, inflight[1])
      /\ (pc = "Closing" /\ ret'.kind = "Ok") =>
           (pending_frames = << >> /\ cmds = << >> /\ inflight = << >>) ]_vars

\* C24 happens: the Closing driver wrote a handle's data frame while the
\* handle's FIN and the GoAway were queued behind it, in that order.
C24_Witness ==
  /\ pc = "Closing"
  /\ \E id \in handles :
       /\ sent = << Frame("Data", {"SYN"}, id, DEFAULT_CREDIT) >>
       /\ pending_frames = << close_stream(id, FALSE), term >>

\* The frame due for a dropped stream, by the state and window the sweep
\* finds it in.
DueFrame(id) ==
  LET st == shared[id].state IN
  IF st = "Open" THEN << Frame("Data", {"RST"}, id, 0) >>
  ELSE IF st = "RecvClosed" THEN << Frame("Data", {"FIN"}, id, 0) >>
  ELSE IF st = "SendClosed" /\ shared[id].window = 0
          /\ config.window_update_mode = "OnRead"
       THEN << Frame("Data", {"RST"}, id, 0) >>
  ELSE << >>

\* The frames due for the dropped streams visited in `order`.
RECURSIVE DueFrames(_)
DueFrames(order) ==
  IF order = << >> THEN << >> ELSE DueFrame(Head(order)) \o DueFrames(Tail(order))

\* The step is an iteration of Active::poll that swept dropped streams and
\* kept the engine.
Swept ==
  /\ pc = "Active" /\ pc' \in {"Active", "idle"} /\ inner' \in {"Active", "Poisoned"}
  /\ dropped_streams(Eng) # {}
  /\ streams' \cap dropped_streams(Eng) = {}

\* C25: a sweep appends to pending_frames, for each stream without a handle,
\* exactly the frame fixed by the stream's state before the sweep (Open: RST;
\* RecvClosed: FIN; SendClosed with window 0 under OnRead: RST; SendClosed
\* otherwise and Closed: none), and the iteration adds at most the one frame
\* of its command or inbound frame behind them.
C25_GcFrameByState ==
  [][ Swept =>
        \E order \in Orders(dropped_streams(Eng)) :
           LET due == pending_frames \o DueFrames(order)
               out == sent' \o pending_frames'
           IN IsPrefix(due, out) /\ Len(out) <= Len(due) + 1 ]_vars

\* C25 happens: a stream that was closed for sending and had its window used
\* up was dropped under OnRead, and the sweep queued a RST behind its FIN.
C25_Witness ==
  /\ config.window_update_mode = "OnRead"
  /\ pc \in {"Active", "idle"} /\ inner \in {"Active", "Poisoned"}
  /\ \E id \in 1..MAX_ID :
       /\ id \notin streams \cup handles
       /\ pending_frames = << close_stream(id, FALSE), rst_frame(id) >>

\* The step is an iteration of Active::poll: it wrote or read a frame, took a
\* command, returned, or tore the engine down.
PollStep ==
  /\ pc = "Active"
  /\ \/ ret' # NoRet \/ sent' # << >> \/ recv' # << >>
     \/ cmds # << >> /\ cmds' = Tail(cmds)
     \/ pc' = "Cleanup"

\* The frames of `queue` that belong to stream `id`.
FramesOf(queue, id) == { i \in DOMAIN queue : queue[i].id = id }

\* C26: an iteration of Active::poll leaves no record without a handle in
\* the table.  Its sweep closes every such record, wakes both its wakers,
\* removes it from the table and queues at most one frame for it; the
\* records that have a handle stay in the table as they were.
C26_SweepRemovesDropped ==
  [][ PollStep =>
        /\ streams' \subseteq handles'
        /\ \A order \in Orders(dropped_streams(Eng)) :
             LET sw == gc_sweep(Eng, order)
                 b == garbage_collect(Eng, order)
                 new == SubSeq(b.pending_frames, Len(pending_frames) + 1,
                               Len(b.pending_frames))
             IN /\ b.streams = streams \cap handles
                /\ \A id \in b.streams : b.shared[id] = shared[id]
                /\ \A id \in dropped_streams(Eng) :
                     /\ sw.shared[id].state = "Closed"
                     /\ ~sw.shared[id].reader /\ ~sw.shared[id].writer
                     /\ id \notin b.streams /\ id \notin DOMAIN b.shared
                     /\ Cardinality(FramesOf(new, id)) <= 1
                /\ IsPrefix(pending_frames, b.pending_frames)
                /\ \A i \in DOMAIN new : new[i].id \in dropped_streams(Eng) ]_vars

\* C26 happens: a stream that was dropped while Open is gone from the table
\* and its one RST is queued.
C26_Witness ==
  /\ FacadeState = "Active"
  /\ streams = {} /\ handles = {}
  /\ next_id > first_id(mode)
  /\ pending_frames = << rst_frame(first_id(mode)) >>

\* The positions of `queue` that hold a GoAway(Normal).
Terms(queue) == { i \in DOMAIN queue : queue[i] = term }

\* C27: graceful close writes the frames that were pending, then the frames
\* of the queued commands in queue order, then one GoAway(Normal).  The
\* Active engine never queues or writes a GoAway(Normal).  The Closing driver
\* writes nothing while it drains the command queue, appending the frame of
\* each command it takes and, once the queue is drained, one GoAway(Normal);
\* from then on it only writes the head of pending_frames, whose last and
\* only GoAway(Normal) is therefore the last frame written; it closes the
\* socket only when pending_frames is empty.
C27_ClosingSequence ==
  /\ [] ( /\ FacadeState = "Active" =>
               (Terms(pending_frames) = {} /\ Terms(sent) = {})
          /\ (FacadeState = "Closing" /\ closing_state = "DrainingStreamReceiver") =>
               (Terms(pending_frames) = {} /\ sent = << >>)
          /\ ( /\ FacadeState = "Closing"
               /\ closing_state \in {"FlushingPendingFrames", "ClosingSocket"}
               /\ pending_frames # << >> ) =>
               Terms(pending_frames) = {Len(pending_frames)} )
  /\ [][ pc = "Closing" =>
           /\ closing_state = "DrainingStreamReceiver" =>
                /\ sent' = << >>
                /\ IF cmds # << >> /\ cmds' = Tail(cmds)
                   THEN /\ pending_frames' = pending_frames \o << command_frame(Head(cmds)) >>
                        /\ closing_state' = closing_state
                   ELSE IF closing_state' = "FlushingPendingFrames"
                   THEN /\ cmds = << >> /\ inflight = << >>
                        /\ pending_frames' = pending_frames \o << term >>
                   ELSE pending_frames' = pending_frames /\ closing_state' = closing_state
           /\ closing_state = "FlushingPendingFrames" =>
                /\ sent' # << >> => pending_frames = sent' \o pending_frames'
                /\ (sent' = << >> /\ ret'.kind # "Err") => pending_frames' = pending_frames
                /\ closing_state' = "ClosingSocket" => pending_frames = << >>
                /\ closing_state' \in {"FlushingPendingFrames", "ClosingSocket"}
           /\ closing_state = "ClosingSocket" =>
                (sent' = << >> /\ pending_frames = << >> /\ closing_state' = closing_state)
           /\ ret'.kind = "Ok" =>
                (closing_state' = "ClosingSocket" /\ sock' = "closed" /\ pending_frames = << >>) ]_vars

\* C27 happens: the Closing driver has queued, behind the data frame that was
\* pending when close was requested, the FIN of a queued CloseStream command
\* and the GoAway(Normal), and has written none of them yet.
C27_Witness ==
  /\ FacadeState = "Closing"
  /\ closing_state = "FlushingPendingFrames"
  /\ cmds = << >>
  /\ \E id \in handles :
       pending_frames = << Frame("Data", {"SYN"}, id, DEFAULT_CREDIT),
                           close_stream(id, FALSE), term >>

\* The Closing driver takes a step that is not Poll::Pending: the socket was
\* ready for what the driver's state needed.
ClosingProgress == ClosingPoll /\ ret'.kind # "Pending"

\* A client whose close is polled again whenever it returned Pending, whose
\* socket is ready again and again, and whose senders complete a send they
\* have a slot for.
SpecClosing ==
  /\ InitBusy /\ [][Next]_vars
  /\ WF_vars(poll_close)
  /\ WF_vars(SendCommit)
  /\ SF_vars(ClosingProgress)

\* The position of a state of the Closing driver in its sequence.
Rank(state) ==
  CASE state = "ClosingStreamReceiver" -> 0
    [] state = "DrainingStreamReceiver" -> 1
    [] state = "FlushingPendingFrames" -> 2
    [] state = "ClosingSocket" -> 3

\* C28: the Closing driver's state only advances, one state at a time, in the
\* order ClosingStreamReceiver, DrainingStreamReceiver, (SendingTermFrame,)
\* FlushingPendingFrames, ClosingSocket; once the command channel is closed it
\* stays closed and no sender gets a new slot; and a connection that is
\* Closing ends up Closed, unless the socket fails (the close call then
\* returns the error) or the connection is dropped, whatever the stream
\* handles do meanwhile.
C28_ClosingTerminates ==
  /\ [][ /\ Rank(closing_state') \in {Rank(closing_state), Rank(closing_state) + 1}
         /\ rx_closed => (rx_closed' /\ inflight' \in {inflight, << >>}) ]_vars
  /\ (FacadeState = "Closing")
       ~> \/ FacadeState = "Closed"
          \/ pc = "idle" /\ inner = "Poisoned"
          \/ pc = "dropped"

\* C28 happens: the close completed while a stream handle was still held,
\* open for writing, with send credit left.
C28_Witness ==
  /\ ret.op = "close" /\ ret.kind = "Ok"
  /\ inner = "Closed" /\ closing_state = "ClosingSocket"
  /\ \E id \in handles :
       can_write(shared[id].state) /\ shared[id].credit > 0

\* C29: a stream's opening flag is arranged exactly once when the stream is
\* created.  An open-outbound either queues one WindowUpdate with SYN for
\* receive_window - DEFAULT_CREDIT and leaves the stream's flag unset (when
\* receive_window > DEFAULT_CREDIT), or queues nothing and sets the flag to
\* Syn.  A Data frame with SYN that creates a stream either queues one
\* WindowUpdate with ACK that restores the window and leaves the flag unset
\* (only under OnReceive), or queues nothing and sets the flag to Ack.
C29_OpeningFlagOnce ==
  [][ /\ (ret'.op = "new_outbound" /\ ret'.kind = "Ok") =>
           LET id == ret'.val
               extra == config.receive_window - DEFAULT_CREDIT
           IN IF config.receive_window > DEFAULT_CREDIT
              THEN /\ pending_frames' =
                        pending_frames \o << Frame("WindowUpdate", {"SYN"}, id, extra) >>
                   /\ shared'[id].flag = "None"
              ELSE /\ pending_frames' = pending_frames
                   /\ shared'[id].flag = "Syn"
      /\ \A f \in Received :
           ( /\ f.tag = "Data" /\ "SYN" \in f.flags /\ "RST" \notin f.flags
             /\ f.id \in streams' \ SweptTable ) =>
             LET given == shared'[f.id].window - (DEFAULT_CREDIT - f.len)
                 update == Appended(<< Frame("WindowUpdate", {"ACK"}, f.id, given) >>)
                 flagged == shared'[f.id].flag = "Ack"
             IN \/ /\ update /\ ~flagged /\ ~Appended(<< >>)
                   /\ given > 0 /\ shared'[f.id].flag = "None"
                   /\ config.window_update_mode = "OnReceive"
                \/ /\ flagged /\ Appended(<< >>) /\ given = 0 ]_vars

\* C29 happens: under OnReceive a Data frame with SYN and an empty body
\* created a stream; no update was due, so the stream carries the Ack flag
\* and nothing was queued.
C29_Witness ==
  /\ config.window_update_mode = "OnReceive"
  /\ pending_frames = << >>
  /\ \E f \in Range(recv) :
       /\ f.tag = "Data" /\ f.flags = {"SYN"} /\ f.len = 0
       /\ f.id \in streams \cap handles
       /\ shared[f.id].flag = "Ack"
       /\ shared[f.id].origin = "remote"

\* C30: send credit is updated by exact addition that fits 32 bits.  A
\* WindowUpdate with SYN that passes the checks on its id opens a stream with
\* credit DEFAULT_CREDIT + the advertised credit and window DEFAULT_CREDIT; a
\* WindowUpdate for a stream in the table sets its credit to the old credit
\* plus the advertised credit and wakes the writer; whatever credit the frame
\* advertises, the credit stays within its width and the engine does not panic.
C30_ExactCredit ==
  [][ \A f \in Received :
        (f.tag = "WindowUpdate" /\ "RST" \notin f.flags) =>
          /\ ret'.kind # "Panic"
          /\ ( /\ "SYN" \in f.flags
               /\ is_valid_remote_id(f.id, "WindowUpdate")
               /\ f.id \notin SweptTable
               /\ Cardinality(SweptTable) < config.max_num_streams ) =>
                 /\ f.id \in streams'
                 /\ shared'[f.id].credit = DEFAULT_CREDIT + f.len
                 /\ shared'[f.id].credit <= MAX_CREDIT
                 /\ shared'[f.id].window = DEFAULT_CREDIT
          /\ ("SYN" \notin f.flags /\ f.id \in SweptTable) =>
                 /\ f.id \in streams'
                 /\ shared'[f.id].credit = shared[f.id].credit + f.len
                 /\ shared'[f.id].credit <= MAX_CREDIT
                 /\ ~shared'[f.id].writer ]_vars

\* A call of open-outbound reaches Active::new_outbound in this step.
OpenAttempt ==
  /\ pc = "idle" /\ inner = "Active"
  /\ (op' = "new_outbound" \/ ret'.op = "new_outbound")
\* The attempt fails with NoMoreStreamIds.
OutOfIds == pc' = "Cleanup" /\ cleanup_error' = "NoMoreStreamIds"

\* C31 as stated: allocation fails with NoMoreStreamIds exactly when the id to
\* hand out, next_id, would not fit the width of an id.
C31_FailsOnOverflowOfId ==
  [][ OpenAttempt =>
        (OutOfIds <=> ( /\ Cardinality(streams) < config.max_num_streams
                        /\ next_id > MAX_ID )) ]_vars

\* C31: next_id has the parity of the mode and is at least the mode's first
\* id; it never decreases and every locally opened stream has an id below it,
\* so no id is handed out twice, even after its stream was swept.  A
\* successful open-outbound hands out next_id and adds exactly 2, and next_id
\* stays within the width.  Allocation fails with NoMoreStreamIds exactly when
\* next_id + 2 would not fit the width, so that the largest id of the mode is
\* never handed out; a failed allocation leaves next_id unchanged and inserts
\* no stream.
C31_IdAllocation ==
  [][ /\ next_id >= first_id(mode) /\ next_id <= MAX_ID
      /\ (mode = "Client" => is_client(next_id))
      /\ (mode = "Server" => is_server(next_id))
      /\ next_id' >= next_id
      /\ \A id \in DOMAIN shared' : shared'[id].origin = "local" => id < next_id'
      /\ (ret'.op = "new_outbound" /\ ret'.kind = "Ok") =>
            /\ ret'.val = next_id
            /\ next_id' = next_id + 2
            /\ ret'.val \notin DOMAIN shared
            /\ ret'.val \in streams' \cap handles'
      /\ ~(ret'.op = "new_outbound" /\ ret'.kind = "Ok") => next_id' = next_id
      /\ OpenAttempt =>
            /\ OutOfIds <=> ( /\ Cardinality(streams) < config.max_num_streams
                              /\ next_id + 2 > MAX_ID )
            /\ OutOfIds => (next_id' = next_id /\ streams' \subseteq streams) ]_vars

\* C31 happens: the connection handed out the last id but one of its mode,
\* that stream was dropped and swept, and the next open-outbound has failed
\* with NoMoreStreamIds, next_id standing at the largest id of the mode.
C31_Witness ==
  /\ next_id = late_id(mode)
  /\ next_id = MAX_ID
  /\ pc = "Cleanup" /\ op = "new_outbound"
  /\ cleanup_error = "NoMoreStreamIds"
  /\ last_id(mode) \notin DOMAIN shared

\* C32: a Data frame for a stream in the table that fits the stream's window
\* but finds the stream's buffer at max_buffer_size is answered with exactly
\* one zero-length Data frame with RST for the stream; the stream stays in
\* the table, the connection stays Active, and the stream's record (buffer,
\* window and state included) is what it was before the frame, also when the
\* rejected frame carries FIN.
C32_RejectedFrameLeavesStream ==
  [][ \A f \in Received :
        ( /\ f.tag = "Data" /\ "RST" \notin f.flags /\ "SYN" \notin f.flags
          /\ f.id \in SweptTable
          /\ f.len <= shared[f.id].window
          /\ buffer_len(shared[f.id]) >= config.max_buffer_size ) =>
            /\ Appended(<< rst_frame(f.id) >>)
            /\ f.id \in streams'
            /\ pc' = "Active"
            /\ shared'[f.id] = shared[f.id] ]_vars

\* The facade's transitions: close on an Active connection, a fatal error on
\* an Active connection, and the end of the Closing and the Cleanup driver.
Lifecycle ==
  { << "Active", "Closing" >>, << "Active", "Cleanup" >>,
    << "Closing", "Closed" >>, << "Cleanup", "Closed" >> }

\* C33: the facade's lifecycle is one-way.  A step leaves the facade's state
\* alone or takes one of Active -> Closing, Active -> Cleanup, Closing ->
\* Closed and Cleanup -> Closed; and on a Closed facade every call leaves it
\* Closed and returns at once: open-outbound fails, poll-next-inbound reports
\* the end of the stream, close succeeds.
C33_OneWayLifecycle ==
  [][ /\ \/ FacadeState' = FacadeState
         \/ << FacadeState, FacadeState' >> \in Lifecycle
      /\ FacadeState = "Closed" =>
           /\ FacadeState' = "Closed"
           /\ ret'.op = "new_outbound" => ret'.kind = "Err"
           /\ ret'.op = "next_inbound" => ret'.kind = "None"
           /\ ret'.op = "close" => ret'.kind = "Ok" ]_vars

\* C34: once the sweep has queued an RST for a stream and that RST has left
\* the queue for the socket, no Data frame (a FIN included) and no
\* WindowUpdate for the same id is written to the socket, also when the
\* handle left commands in the channel before it was dropped.
C34_NothingAfterSweepReset ==
  [][ \A f \in Range(sent') :
        ( /\ f.tag \in {"Data", "WindowUpdate"}
          /\ f.id \in swept_rst
          /\ rst_frame(f.id) \notin Range(pending_frames)
          /\ rst_frame(f.id) \notin Range(pending_frames') )
        => f = rst_frame(f.id) ]_vars
====
